---- MODULE Spec2Model ----
(***************************************************************************)
(* Requirements-to-scenarios analysis pipeline of bddai-pair:              *)
(*   PRDParser -> FeatureExtractor -> ScenarioGenerator ->                 *)
(*   RequirementsAnalyzer (summary, recommendations, validation).          *)
(*                                                                         *)
(* Strings are sequences of tokens (words, blanks, punctuation), so that   *)
(* concatenation is \o and '' is <<>>.  Objects compared by reference in   *)
(* the source (requirements in a Set / Array.includes) are identified by   *)
(* their position in the requirement list.                                 *)
(***************************************************************************)
EXTENDS Integers, Sequences, FiniteSets, TLC

VARIABLES
    pc,                \* position of the call in progress
    call,              \* the public operation in progress
    content,           \* the text handed to parseContent / analyzeContent
    givenOptions,           \* the Partial<ScenarioGenerationOptions> of the call
    givenFeature,           \* the feature handed to generateScenarios
    prd,               \* ParsedPRD handed to / produced by the call
    requirementGroups, \* the local requirementGroups of extractFeatures
    features,          \* ExtractedFeature[] handed to / produced by the call
    generated,         \* GeneratedScenario[] returned by generateScenarios
    validation,        \* ValidationResult (plus the raw circular id list)
    outcome,           \* "pending", "returned" or the error raised
    defaultOptions,    \* the field ScenarioGenerator.defaultOptions
    earlier,           \* observer: one completed earlier call, <<>> if none
    arguments,         \* the arguments of a helper that is called on its own
    returned           \* what that helper returned

vars == <<pc, call, content, givenOptions, givenFeature, prd, requirementGroups,
          features, generated, validation, outcome, defaultOptions, earlier,
          arguments, returned>>

----------------------------------------------------------------------------
(* Generic helpers standing for JavaScript built-ins.                      *)

\* the value of an absent optional field
Undefined == <<"<undefined>">>

\* the value of an absent optional array of strings
UndefinedList == <<Undefined>>

Max(a, b) == IF a >= b THEN a ELSE b

Min(a, b) == IF a <= b THEN a ELSE b

Range(s) == {s[i] : i \in 1..Len(s)}

\* Array.prototype.indexOf, 0-based, -1 when absent
IndexOf(s, x) ==
    IF \E i \in 1..Len(s) : s[i] = x
    THEN (CHOOSE i \in 1..Len(s) : s[i] = x /\ \A j \in 1..(i-1) : s[j] # x) - 1
    ELSE -1

\* Array.prototype.slice(start) with a 0-based, possibly negative start
SliceFrom(s, start) ==
    LET from == IF start < 0 THEN Max(Len(s) + start, 0) ELSE Min(start, Len(s))
    IN  SubSeq(s, from + 1, Len(s))

\* Array.prototype.filter on positions: the indices i of s with P(s, i), in order
RECURSIVE FilterIdx(_, _, _)
FilterIdx(s, P(_, _), i) ==
    IF i > Len(s) THEN <<>>
    ELSE (IF P(s, i) THEN <<i>> ELSE <<>>) \o FilterIdx(s, P, i + 1)

\* String.prototype.trim().length === 0
IsBlank(str) == \A i \in 1..Len(str) : str[i] = " "

\* JavaScript falsiness of an optional string: undefined or ''
Falsy(str) == str = Undefined \/ str = <<>>

----------------------------------------------------------------------------
(* RequirementsAnalyzer.validateRequirements and its cycle detection.      *)

PenaltyDuplicateIds == 20
PenaltyEmpty == 15
PenaltyOrphaned == 5
PenaltyLargeFeature == 10
PenaltyNoActor == 5
PenaltyCircular == 10
LargeFeatureLimit == 10

\* dependencyMap: Map<string, string[]>, later set() of the same key wins
RECURSIVE BuildDependencyMap(_, _, _)
BuildDependencyMap(fs, i, map) ==
    IF i > Len(fs) THEN map
    ELSE BuildDependencyMap(fs, i + 1,
            [k \in DOMAIN map \cup {fs[i].id} |->
                IF k = fs[i].id THEN fs[i].dependencies ELSE map[k]])

\* dependencyMap.get(featureId) || []
MapGetDeps(map, featureId) ==
    IF featureId \in DOMAIN map THEN map[featureId] ELSE <<>>

\* the inner function dfs(featureId, path); st carries the closure's
\* visited, recursionStack and circular, ret is the boolean returned
RECURSIVE dfs(_, _, _, _)
RECURSIVE dfsDeps(_, _, _, _, _)
dfs(map, featureId, path, st) ==
    IF featureId \in st.recursionStack
    THEN LET cycleStart == IndexOf(path, featureId)
         IN  [st EXCEPT !.circular = @ \o SliceFrom(path, cycleStart) \o <<featureId>>,
                        !.ret = TRUE]
    ELSE IF featureId \in st.visited
    THEN [st EXCEPT !.ret = FALSE]
    ELSE LET st1 == [st EXCEPT !.visited = @ \cup {featureId},
                               !.recursionStack = @ \cup {featureId},
                               !.expanded = @ \o <<featureId>>]
             r == dfsDeps(map, MapGetDeps(map, featureId), 1, path \o <<featureId>>, st1)
         IN  IF r.ret THEN r
             ELSE [r EXCEPT !.recursionStack = @ \ {featureId}, !.ret = FALSE]

\* variant: every dependency is entered with visited cut back to the
\* recursion stack
dfsDepsForgetful(map, deps, i, path, st) ==
    IF i > Len(deps) THEN [st EXCEPT !.ret = FALSE]
    ELSE LET r == dfs(map, deps[i], path, [st EXCEPT !.visited = st.recursionStack])
         IN  IF r.ret THEN r ELSE dfsDeps(map, deps, i + 1, path, r)

\* the loop "for (const dep of dependencies) if (dfs(dep, ...)) return true"
dfsDeps(map, deps, i, path, st) ==
    IF i > Len(deps) THEN [st EXCEPT !.ret = FALSE]
    ELSE LET r == dfs(map, deps[i], path, st)
         IN  IF r.ret THEN r ELSE dfsDeps(map, deps, i + 1, path, r)

\* variant: the traversal is started from the first feature only
dfsRootsFirstOnly(map, fs, i, st) ==
    IF Len(fs) = 0 THEN st ELSE dfs(map, fs[1].id, <<>>, st)

\* the loop "for (const feature of features) if (!visited.has(id)) dfs(id, [])"
RECURSIVE dfsRoots(_, _, _, _)
dfsRoots(map, fs, i, st) ==
    IF i > Len(fs) THEN st
    ELSE IF fs[i].id \in st.visited THEN dfsRoots(map, fs, i + 1, st)
    ELSE dfsRoots(map, fs, i + 1, dfs(map, fs[i].id, <<>>, st))

detectCircularDependenciesRun(fs) ==
    dfsRoots(BuildDependencyMap(fs, 1, <<>>), fs, 1,
             [visited |-> {}, recursionStack |-> {}, circular |-> <<>>,
              expanded |-> <<>>, ret |-> FALSE])

detectCircularDependencies(fs) == detectCircularDependenciesRun(fs).circular

\* ids.filter((id, index) => ids.indexOf(id) !== index)
IsRepeatedId(ids, i) == IndexOf(ids, ids[i]) # i - 1

\* variant: only the description is looked at
IsEmptyRequirementDescriptionOnly(reqs, i) == Falsy(reqs[i].description)

\* !r.title || !r.description || r.title.trim().length === 0
IsEmptyRequirement(reqs, i) ==
    Falsy(reqs[i].title) \/ Falsy(reqs[i].description) \/ IsBlank(reqs[i].title)

\* r.type === 'acceptance-criteria' && !r.title
IsOrphanedCriteria(reqs, i) ==
    reqs[i].type = "acceptance-criteria" /\ Falsy(reqs[i].title)

\* f.requirements.length > 10
IsLargeFeature(fs, i) == Len(fs[i].requirements) > LargeFeatureLimit

\* f.userFlows.length === 0 || f.userFlows.every(flow => !flow.actor)
IsFeatureWithoutActor(fs, i) ==
    \A k \in 1..Len(fs[i].userFlows) : Falsy(fs[i].userFlows[k].actor)

\* variant: the penalty is charged once per defect found
ApplyCheckPerDefect(v, list, kind, defects, penalty) ==
    IF Len(defects) > 0
    THEN [v EXCEPT ![list] = @ \o <<[kind |-> kind, count |-> Len(defects)]>>,
                   !.score = @ - penalty * Len(defects)]
    ELSE v

\* one "if (defects.length > 0) { list.push(message); score -= penalty }"
ApplyCheck(v, list, kind, defects, penalty) ==
    IF Len(defects) > 0
    THEN [v EXCEPT ![list] = @ \o <<[kind |-> kind, count |-> Len(defects)]>>,
                   !.score = @ - penalty]
    ELSE v

\* variant: Math.min in place of Math.max
FloorScoreMin(score) == Min(0, score)

\* score = Math.max(0, score)
FloorScore(score) == Max(0, score)

\* variant: warnings count against validity too
IsValidNoWarnings(errors, warnings) == Len(errors) = 0 /\ Len(warnings) = 0

\* isValid: errors.length === 0
IsValid(errors, warnings) == Len(errors) = 0

validateRequirements(p, fs) ==
    LET reqs == p.requirements
        ids  == [i \in 1..Len(reqs) |-> reqs[i].id]
        v0 == [errors |-> <<>>, warnings |-> <<>>, score |-> 100]
        v1 == ApplyCheck(v0, "errors", "duplicate-ids",
                         FilterIdx(ids, IsRepeatedId, 1), PenaltyDuplicateIds)
        v2 == ApplyCheck(v1, "errors", "empty",
                         FilterIdx(reqs, IsEmptyRequirement, 1), PenaltyEmpty)
        v3 == ApplyCheck(v2, "warnings", "orphaned-criteria",
                         FilterIdx(reqs, IsOrphanedCriteria, 1), PenaltyOrphaned)
        v4 == ApplyCheck(v3, "warnings", "large-feature",
                         FilterIdx(fs, IsLargeFeature, 1), PenaltyLargeFeature)
        v5 == ApplyCheck(v4, "warnings", "no-actor",
                         FilterIdx(fs, IsFeatureWithoutActor, 1), PenaltyNoActor)
        circularDeps == detectCircularDependencies(fs)
        v6 == ApplyCheck(v5, "warnings", "circular", circularDeps, PenaltyCircular)
    IN  [isValid  |-> IsValid(v6.errors, v6.warnings),
         warnings |-> v6.warnings,
         errors   |-> v6.errors,
         score    |-> FloorScore(v6.score),
         circular |-> circularDeps]

----------------------------------------------------------------------------
(* Record shapes of PRDParser.ts and FeatureExtractor.                     *)

\* a ParsedRequirement; absent optional fields are Undefined
Requirement(id, title, description, type) ==
    [id |-> id, title |-> title, description |-> description, type |-> type,
     priority |-> "medium", actor |-> Undefined, goal |-> Undefined,
     value |-> Undefined, acceptanceCriteria |-> UndefinedList,
     dependencies |-> UndefinedList, tags |-> <<type>>]

\* a UserFlow
UserFlow(id, name, description, steps, actor) ==
    [id |-> id, name |-> name, description |-> description, steps |-> steps,
     actor |-> actor]

\* an ExtractedFeature
Feature(id, name, requirements, dependencies, userFlows) ==
    [id |-> id, name |-> name, description |-> <<>>,
     requirements |-> requirements, dependencies |-> dependencies,
     priority |-> "medium", complexity |-> "simple", estimatedScenarios |-> 1,
     userFlows |-> userFlows]

\* groupByType / groupByPriority: the counts of the keys that occur
CountBy(reqs, field) ==
    [k \in {reqs[i][field] : i \in 1..Len(reqs)} |->
        Cardinality({i \in 1..Len(reqs) : reqs[i][field] = k})]

\* a ParsedPRD reduced to what the analysis reads
PRD(title, requirements) ==
    [title |-> title, requirements |-> requirements,
     metadata |-> [totalRequirements |-> Len(requirements),
                   byType |-> CountBy(requirements, "type"),
                   byPriority |-> CountBy(requirements, "priority")]]

\* metadata.title || 'Untitled PRD'
UntitledPRD == <<"Untitled", " ", "PRD">>

NoPRD == PRD(UntitledPRD, <<>>)

NoValidation ==
    [isValid |-> TRUE, warnings |-> <<>>, errors |-> <<>>, score |-> 100,
     circular |-> <<>>]

\* all sequences over S of length at most n
SeqsUpTo(S, n) == UNION {[1..k -> S] : k \in 0..n}

----------------------------------------------------------------------------
(* Text.  A line is a sequence of tokens; content.split('\n') is the       *)
(* sequence of its lines, lines.join('\n') puts a "\n" token between them. *)
(* A blank is one " " token and lines carry no trailing blanks.            *)

\* String.prototype.toLowerCase (and the i flag) on the words of the texts
Lower(t) ==
    CASE t = "As" -> "as" [] t = "A" -> "a" [] t = "An" -> "an"
      [] t = "I" -> "i" [] t = "User" -> "user" [] t = "Story" -> "story"
      [] t = "Feature" -> "feature" [] t = "Login" -> "login"
      [] t = "Search" -> "search" [] t = "Rate" -> "rate"
      [] t = "Users" -> "users" [] t = "Shop" -> "shop"
      [] t = "General" -> "general" [] t = "Flow" -> "flow"
      [] t = "High" -> "high" [] t = "HIGH" -> "high"
      [] t = "Success" -> "success" [] t = "Multiple" -> "multiple"
      [] t = "Unauthorized" -> "unauthorized" [] t = "Partial" -> "partial"
      [] t = "Completion" -> "completion" [] t = "Admin" -> "admin"
      [] t = "Lock" -> "lock" [] t = "Audit" -> "audit"
      [] t = "Billing" -> "billing" [] t = "Checkout" -> "checkout"
      [] OTHER -> t

\* \s
IsSpace(t) == t \in {" ", "\n"}

\* the token at position k, "" past either end
At(c, k) == IF k \in 1..Len(c) THEN c[k] ELSE ""

\* greedy \s*: the first position from q on that holds no white space
SkipSpace(c, q) ==
    IF \E k \in q..Len(c) : ~IsSpace(c[k])
    THEN CHOOSE k \in q..Len(c) : ~IsSpace(c[k]) /\ \A j \in q..(k - 1) : IsSpace(c[j])
    ELSE Len(c) + 1

\* $ under the m flag: the position of the next "\n", or the end
EndOfLine(c, q) ==
    IF \E k \in q..Len(c) : c[k] = "\n"
    THEN CHOOSE k \in q..Len(c) : c[k] = "\n" /\ \A j \in q..(k - 1) : c[j] # "\n"
    ELSE Len(c) + 1

\* a literal under the i flag
Literal(c, q, lit) == \A k \in 1..Len(lit) : Lower(At(c, q + k - 1)) = lit[k]

\* String.prototype.trim
Trim(str) ==
    IF \A k \in 1..Len(str) : IsSpace(str[k]) THEN <<>>
    ELSE LET first == CHOOSE k \in 1..Len(str) :
                          ~IsSpace(str[k]) /\ \A j \in 1..(k - 1) : IsSpace(str[j])
             last  == CHOOSE k \in 1..Len(str) :
                          ~IsSpace(str[k]) /\ \A j \in (k + 1)..Len(str) : IsSpace(str[j])
         IN  SubSeq(str, first, last)

\* String.prototype.startsWith
StartsWith(str, prefix) ==
    Len(prefix) <= Len(str) /\ SubSeq(str, 1, Len(prefix)) = prefix

\* lines.join('\n')
RECURSIVE JoinLines(_)
JoinLines(lines) ==
    IF Len(lines) = 0 THEN <<>>
    ELSE IF Len(lines) = 1 THEN lines[1]
    ELSE lines[1] \o <<"\n">> \o JoinLines(Tail(lines))

\* least element of a non-empty set of positions
Least(S) == CHOOSE k \in S : \A j \in S : k <= j

----------------------------------------------------------------------------
(* PRDParser.                                                              *)

DigitTokens == <<"0", "1", "2", "3", "4", "5", "6", "7", "8", "9">>

\* String(n) for n >= 0
RECURSIVE NumberToString(_)
NumberToString(n) ==
    IF n < 10 THEN <<DigitTokens[n + 1]>>
    ELSE NumberToString(n \div 10) \o <<DigitTokens[(n % 10) + 1]>>

\* String.prototype.padStart(3, '0')
RECURSIVE PadStart3(_)
PadStart3(str) == IF Len(str) >= 3 THEN str ELSE PadStart3(<<"0">> \o str)

\* variant: ids are numbered within the requirements of one type
GenerateIdPerType(reqs, i) ==
    <<"REQ-">> \o
    PadStart3(NumberToString(
        Cardinality({j \in 1..i : reqs[j].type = reqs[i].type})))

\* `REQ-${String(index + 1).padStart(3, '0')}`, i being index + 1
GenerateId(reqs, i) == <<"REQ-">> \o PadStart3(NumberToString(i))

\* requirements.forEach((req, index) => req.id = req.id || ...)
AssignIds(reqs) ==
    [i \in 1..Len(reqs) |->
        IF Falsy(reqs[i].id) THEN [reqs[i] EXCEPT !.id = GenerateId(reqs, i)]
        ELSE reqs[i]]

\* \.?$ : an optional full stop, then the end of the line; the position
\* behind the match, 0 when there is none
StopAndEnd(c, q) ==
    IF At(c, q) = "." /\ EndOfLine(c, q + 1) = q + 1 THEN q + 1
    ELSE IF EndOfLine(c, q) = q THEN q
    ELSE 0

\* (?:\s*,\s*so that\s+(.+?))? followed by \.?$ : where the value starts and
\* ends and where the match ends; start 0 when the group does not match
SoThatGroup(c, q) ==
    LET comma == SkipSpace(c, q)
        so    == SkipSpace(c, comma + 1)
        v1    == SkipSpace(c, so + 3)
        ends  == {v2 \in v1..(EndOfLine(c, v1) - 1) : StopAndEnd(c, v2 + 1) # 0}
    IN  IF /\ At(c, comma) = ","
           /\ Literal(c, so, <<"so", " ", "that">>)
           /\ IsSpace(At(c, so + 3))
           /\ ends # {}
        THEN [start |-> v1, end |-> Least(ends),
              next |-> StopAndEnd(c, Least(ends) + 1)]
        ELSE [start |-> 0, end |-> 0, next |-> 0]

\* \s*,\s*I want to\s+ at q: the position where the goal starts, 0 if no match
WantTo(c, q) ==
    LET comma == SkipSpace(c, q)
        i     == SkipSpace(c, comma + 1)
        g1    == SkipSpace(c, i + 5)
    IN  IF /\ At(c, comma) = ","
           /\ Literal(c, i, <<"i", " ", "want", " ", "to">>)
           /\ IsSpace(At(c, i + 5))
           /\ g1 <= Len(c)
        THEN g1 ELSE 0

\* no match of userStoryRegex
NoStory == [next |-> 0, story |-> Undefined]

\* the story of a match of userStoryRegex from p: actor at a1..a2, goal at
\* g1..g2, group the optional "so that" group behind the goal
StoryOf(c, p, a1, a2, g1, g2, group, next) ==
    [next  |-> next,
     story |-> [id |-> <<>>,
                title |-> <<"User", " ", "Story", ":", " ">> \o SubSeq(c, g1, g2),
                description |-> SubSeq(c, p, next - 1),
                type |-> "user-story",
                priority |-> "medium",
                actor |-> Trim(SubSeq(c, a1, a2)),
                goal |-> Trim(SubSeq(c, g1, g2)),
                value |-> IF group.next # 0
                          THEN Trim(SubSeq(c, group.start, group.end))
                          ELSE Undefined,
                acceptanceCriteria |-> UndefinedList,
                dependencies |-> UndefinedList,
                tags |-> <<"user-story">>]]

\* the match ends behind the "so that" group if that matched, else at \.?$
StoryWithGroup(c, p, a1, a2, g1, g2, group) ==
    StoryOf(c, p, a1, a2, g1, g2, group,
            IF group.next # 0 THEN group.next ELSE StopAndEnd(c, g2 + 1))

\* (.+?) for the goal: the shortest goal after which the rest matches
StoryWithGoalEnds(c, p, a1, a2, g1, goalEnds) ==
    IF goalEnds = {} THEN NoStory
    ELSE StoryWithGroup(c, p, a1, a2, g1, Least(goalEnds),
                        SoThatGroup(c, Least(goalEnds) + 1))

StoryWithGoal(c, p, a1, a2, g1) ==
    StoryWithGoalEnds(c, p, a1, a2, g1,
        {g2 \in g1..(EndOfLine(c, g1) - 1) :
            SoThatGroup(c, g2 + 1).next # 0 \/ StopAndEnd(c, g2 + 1) # 0})

\* (.+?) for the actor: the shortest actor after which "I want to" matches
StoryWithActorEnds(c, p, a1, actorEnds) ==
    IF actorEnds = {} THEN NoStory
    ELSE StoryWithGoal(c, p, a1, Least(actorEnds), WantTo(c, Least(actorEnds) + 1))

StoryWithActor(c, p, a1) ==
    StoryWithActorEnds(c, p, a1,
        {a2 \in a1..(EndOfLine(c, a1) - 1) : WantTo(c, a2 + 1) # 0})

\* userStoryRegex matched at position p of the content: the story it yields
\* and the position behind the match, or next = 0
StoryAt(c, p) ==
    IF /\ Literal(c, p, <<"as", " ">>)
       /\ Lower(At(c, p + 2)) \in {"a", "an"}
       /\ IsSpace(At(c, p + 3))
    THEN StoryWithActor(c, p, SkipSpace(c, p + 3))
    ELSE NoStory

\* the first match from lastIndex on, if any, and the matches behind it
RECURSIVE StoriesFrom(_, _)
StoriesAfter(c, starts) ==
    IF starts = {} THEN <<>>
    ELSE <<StoryAt(c, Least(starts)).story>>
         \o StoriesFrom(c, StoryAt(c, Least(starts)).next)

\* while ((match = userStoryRegex.exec(content)) !== null), from lastIndex on
StoriesFrom(c, from) ==
    StoriesAfter(c, {p \in from..Len(c) : StoryAt(c, p).next # 0})

\* variant: the stories are returned last match first
extractUserStoriesNewestFirst(lines) ==
    LET stories == StoriesFrom(JoinLines(lines), 1)
    IN  [k \in 1..Len(stories) |-> stories[Len(stories) + 1 - k]]

\* PRDParser.extractUserStories
extractUserStories(lines) == StoriesFrom(JoinLines(lines), 1)

\* /^###?\s*Feature[:\s]\s*/i : the position behind the match, 0 if none
FeatureHeadingPrefix(line) ==
    LET k == SkipSpace(line, 2)
    IN  IF /\ At(line, 1) \in {"##", "###"}
           /\ Lower(At(line, k)) = "feature"
           /\ At(line, k + 1) \in {":", " "}
        THEN SkipSpace(line, k + 2) ELSE 0

\* variant: every heading line opens a feature
IsFeatureHeadingAnyHeading(line) ==
    StartsWith(line, <<"Feature", ":">>) \/ At(line, 1) \in {"#", "##", "###"}

\* line.startsWith('Feature:') || line.match(/^###?\s*Feature[:\s]/i)
IsFeatureHeading(line) ==
    StartsWith(line, <<"Feature", ":">>) \/ FeatureHeadingPrefix(line) # 0

\* line.replace(/^###?\s*Feature[:\s]\s*/i, '')
FeatureTitle(line) ==
    IF FeatureHeadingPrefix(line) # 0
    THEN SubSeq(line, FeatureHeadingPrefix(line), Len(line))
    ELSE line

\* a token of digits
IsNumber(t) == t \in Range(DigitTokens)

\* line.match(/^-\s+/) || line.match(/^\d+\.\s+/)
IsListItem(line) ==
    \/ At(line, 1) = "-" /\ IsSpace(At(line, 2))
    \/ IsNumber(At(line, 1)) /\ At(line, 2) = "." /\ IsSpace(At(line, 3))

\* line.replace(/^[-\d.]+\s+/, '')
StripListMarker(line) ==
    LET run == IF \E k \in 1..Len(line) : ~(line[k] \in {"-", "."} \/ IsNumber(line[k]))
               THEN Least({k \in 1..Len(line) :
                              ~(line[k] \in {"-", "."} \/ IsNumber(line[k]))})
               ELSE Len(line) + 1
    IN  IF run > 1 /\ IsSpace(At(line, run))
        THEN SubSeq(line, SkipSpace(line, run), Len(line))
        ELSE line

\* the description test of extractFeatures
IsDescriptionLine(line) ==
    /\ line # <<>>
    /\ At(line, 1) \notin {"#", "##", "###", "-"}
    /\ ~(IsNumber(At(line, 1)) /\ At(line, 2) = ".")
    /\ ~StartsWith(line, <<"Feature", ":">>)

\* one iteration of the loop of extractFeatures on the trimmed line; st holds
\* features, currentFeature (<<>> for null, else <<feature>>) and inFeature
FeatureLineStep(st, rawLine) ==
    LET line == Trim(rawLine)
        st1 == IF IsFeatureHeading(line)
               THEN [features |-> IF st.currentFeature # <<>> /\ st.inFeature
                                  THEN st.features \o st.currentFeature
                                  ELSE st.features,
                     currentFeature |->
                       <<[id |-> <<>>, title |-> FeatureTitle(line),
                         description |-> Undefined, type |-> "feature",
                         priority |-> "medium", actor |-> Undefined,
                         goal |-> Undefined, value |-> Undefined,
                         acceptanceCriteria |-> <<>>, dependencies |-> UndefinedList,
                         tags |-> <<"feature">>]>>,
                     inFeature |-> TRUE]
               ELSE st
        st2 == IF st1.inFeature /\ st1.currentFeature # <<>> /\ IsListItem(line)
               THEN [st1 EXCEPT !.currentFeature[1].acceptanceCriteria =
                                    Append(@, StripListMarker(line))]
               ELSE st1
    IN  IF st2.inFeature /\ st2.currentFeature # <<>> /\ IsDescriptionLine(line)
        THEN [st2 EXCEPT !.currentFeature[1].description =
                            (IF Falsy(@) THEN <<>> ELSE @) \o line \o <<" ">>]
        ELSE st2

RECURSIVE FeatureLines(_, _, _)
FeatureLines(lines, i, st) ==
    IF i > Len(lines) THEN st
    ELSE FeatureLines(lines, i + 1, FeatureLineStep(st, lines[i]))

\* PRDParser.extractFeatures
parserExtractFeatures(lines) ==
    LET st == FeatureLines(lines, 1,
                  [features |-> <<>>, currentFeature |-> <<>>, inFeature |-> FALSE])
    IN  IF st.currentFeature # <<>> /\ st.inFeature
        THEN st.features \o st.currentFeature
        ELSE st.features

\* requirementRegex /^-\s+(.+?)\s*[:=]\s*(.+)/ on a line: where the title
\* starts and ends and where [:=] stands, or sep = 0
RequirementMatch(line) ==
    LET t1 == SkipSpace(line, 2)
        ends == {e \in t1..Len(line) :
                    /\ At(line, SkipSpace(line, e + 1)) \in {":", "="}
                    /\ SkipSpace(line, e + 1) < Len(line)}
    IN  IF At(line, 1) = "-" /\ IsSpace(At(line, 2)) /\ ends # {}
        THEN [start |-> t1, end |-> Least(ends),
              sep |-> SkipSpace(line, Least(ends) + 1)]
        ELSE [start |-> 0, end |-> 0, sep |-> 0]

\* priorityRegex /\[(high|medium|low)\]/i
PriorityOf(line) ==
    LET hits == {k \in 1..Len(line) :
                    /\ line[k] = "["
                    /\ Lower(At(line, k + 1)) \in {"high", "medium", "low"}
                    /\ At(line, k + 2) = "]"}
    IN  IF hits = {} THEN "medium" ELSE Lower(line[Least(hits) + 1])

\* PRDParser.extractRequirements
RECURSIVE extractRequirements(_)
extractRequirements(lines) ==
    IF Len(lines) = 0 THEN <<>>
    ELSE LET line == lines[1]
             m == RequirementMatch(line)
         IN  (IF m.sep # 0
              THEN <<[id |-> <<>>,
                      title |-> Trim(SubSeq(line, m.start, m.end)),
                      description |-> Trim(SubSeq(line, m.sep + 1, Len(line))),
                      type |-> "requirement",
                      priority |-> PriorityOf(line),
                      actor |-> Undefined, goal |-> Undefined, value |-> Undefined,
                      acceptanceCriteria |-> UndefinedList, dependencies |-> UndefinedList,
                      tags |-> <<"requirement">>]>>
              ELSE <<>>) \o extractRequirements(Tail(lines))

\* the title found by extractMetadata: the last line "# ..." wins
MetadataTitle(lines) ==
    LET hits == {i \in 1..Len(lines) :
                    At(lines[i], 1) = "#" /\ IsSpace(At(lines[i], 2))
                    /\ SkipSpace(lines[i], 2) <= Len(lines[i])}
    IN  IF hits = {} THEN Undefined
        ELSE LET i == CHOOSE k \in hits : \A j \in hits : j <= k
             IN  SubSeq(lines[i], SkipSpace(lines[i], 2), Len(lines[i]))

\* PRDParser.parseContent on content.split('\n')
parseContent(lines) ==
    LET requirements == AssignIds(extractUserStories(lines)
                                  \o parserExtractFeatures(lines)
                                  \o extractRequirements(lines))
    IN  PRD(IF Falsy(MetadataTitle(lines)) THEN UntitledPRD ELSE MetadataTitle(lines),
            requirements)

----------------------------------------------------------------------------
(* FeatureExtractor: keywords, similarity, grouping.                       *)
(* Requirements are held in Sets and compared with === in the source, so   *)
(* groups hold positions of the requirement list, not copies.              *)

\* tokens that are neither \w nor \s
Punctuation == {",", ".", ":", "=", "-", "|", "[", "]", "#", "##", "###", "!", "?"}

\* the lower-cased words of the texts of at most 3 characters
ShortWords ==
    {"as", "a", "an", "i", "to", "so", "can", "my", "the", "prd", "5", "x"}
        \cup Range(DigitTokens)

\* the stop-word list of isStopWord
StopWords ==
    {"the", "be", "to", "of", "and", "a", "in", "that", "have",
     "i", "it", "for", "not", "on", "with", "he", "as", "you",
     "do", "at", "this", "but", "his", "by", "from", "they",
     "we", "say", "her", "she", "or", "an", "will", "my",
     "one", "all", "would", "there", "their", "what", "so",
     "up", "out", "if", "about", "who", "get", "which", "go",
     "me", "when", "make", "can", "like", "time", "no", "just",
     "him", "know", "take", "people", "into", "year", "your",
     "good", "some", "could", "them", "see", "other", "than",
     "then", "now", "look", "only", "come", "its", "over", "think",
     "also", "back", "after", "use", "two", "how", "our", "work",
     "first", "well", "way", "even", "new", "want", "because",
     "any", "these", "give", "day", "most", "us", "is", "was",
     "are", "been", "has", "had", "were", "said", "did", "getting",
     "made", "find", "where", "much", "too", "very", "still",
     "being", "going", "why", "before", "never", "here", "more"}

isStopWord(word) == word \in StopWords

\* `${value}` of an optional string: undefined prints as the word undefined
Interpolate(str) == IF str = Undefined THEN <<"undefined">> ELSE str

\* extractKeywords: the words of title, description and goal that are longer
\* than 3 characters and no stop words; two words of a text are always
\* separated by a blank or a punctuation token
extractKeywords(requirement) ==
    LET text == Interpolate(requirement.title) \o <<" ">>
                \o Interpolate(requirement.description) \o <<" ">>
                \o (IF Falsy(requirement.goal) THEN <<>> ELSE requirement.goal)
        words == {Lower(text[k]) : k \in {j \in 1..Len(text) :
                      ~IsSpace(text[j]) /\ text[j] \notin Punctuation}}
    IN  {w \in words : w \notin ShortWords /\ ~isStopWord(w)}

\* calculateSimilarity: intersection.size / union.size kept as a fraction;
\* den = 0 is the NaN of 0 / 0
calculateSimilarity(keywords1, keywords2) ==
    [num |-> Cardinality(keywords1 \cap keywords2),
     den |-> Cardinality(keywords1 \cup keywords2)]

\* similarity > n / d for a threshold n / d; every comparison with NaN is false
Exceeds(similarity, n, d) ==
    similarity.den # 0 /\ similarity.num * d > n * similarity.den

\* Map.prototype.set on an insertion-ordered map kept as a sequence of
\* [key, value]: an existing key keeps its place and gets the new value
MapSet(map, key, value) ==
    IF \E k \in 1..Len(map) : map[k].key = key
    THEN [k \in 1..Len(map) |->
             IF map[k].key = key THEN [key |-> key, value |-> value] ELSE map[k]]
    ELSE Append(map, [key |-> key, value |-> value])

MapHas(map, key) == \E k \in 1..Len(map) : map[k].key = key

MapGet(map, key) == map[CHOOSE k \in 1..Len(map) : map[k].key = key].value

\* positions of s that satisfy the membership test, in order
RECURSIVE SelectIdx(_, _, _)
SelectIdx(n, S, i) ==
    IF i > n THEN <<>>
    ELSE (IF i \in S THEN <<i>> ELSE <<>>) \o SelectIdx(n, S, i + 1)

\* findRelatedRequirements: the other requirements more than 30% similar
findRelatedRequirements(f, reqs) ==
    SelectIdx(Len(reqs),
              {i \in 1..Len(reqs) :
                  /\ i # f
                  /\ Exceeds(calculateSimilarity(extractKeywords(reqs[f]),
                                                 extractKeywords(reqs[i])), 3, 10)},
              1)

\* the words of str.split(' ')
RECURSIVE SplitOnBlank(_)
SplitOnBlank(str) ==
    IF \E k \in 1..Len(str) : str[k] = " "
    THEN LET k == Least({j \in 1..Len(str) : str[j] = " "})
         IN  <<SubSeq(str, 1, k - 1)>> \o SplitOnBlank(SubSeq(str, k + 1, Len(str)))
    ELSE <<str>>

\* the words of the texts that end in e, ed or ing
VerbLikeWords ==
    {"Rate", "rate", "Feature", "feature", "limiting", "the", "like", "value",
     "Achieve", "Complete", "undefined", "failed", "are", "be", "Create",
     "create", "Delete", "delete", "Manage", "manage"}

\* word.endsWith('e') || word.endsWith('ed') || word.endsWith('ing')
EndsLikeVerb(word) == word # <<>> /\ word[Len(word)] \in VerbLikeWords

\* extractTheme
extractTheme(requirement) ==
    IF requirement.type = "user-story" /\ ~Falsy(requirement.goal)
    THEN SplitOnBlank(requirement.goal)[1]
    ELSE IF requirement.type = "feature"
    THEN requirement.title
    ELSE LET words == SplitOnBlank(requirement.title)
             verbs == {k \in 1..Len(words) : EndsLikeVerb(words[k])}
         IN  IF verbs # {} /\ words[Least(verbs)] # <<>> THEN words[Least(verbs)]
             ELSE IF words[1] # <<>> THEN words[1]
             ELSE <<"General">>

\* variant: every unused other joins the theme of req, similar or not
AbsorbSimilarOrNot(reqs, remaining, j, req, theme, st) ==
    LET others == SelectSeq(remaining, LAMBDA other : other \notin st.used)
    IN  [themes |-> MapSet(st.themes, theme, MapGet(st.themes, theme) \o others),
         used |-> st.used \cup Range(others)]

\* the inner loop of identifyThemes: the unused others more than 40% similar
\* to req join its theme
RECURSIVE AbsorbSimilar(_, _, _, _, _, _)
AbsorbSimilar(reqs, remaining, j, req, theme, st) ==
    IF j > Len(remaining) THEN st
    ELSE LET other == remaining[j]
         IN  IF other \in st.used
             THEN AbsorbSimilar(reqs, remaining, j + 1, req, theme, st)
             ELSE IF Exceeds(calculateSimilarity(extractKeywords(reqs[req]),
                                                 extractKeywords(reqs[other])), 4, 10)
             THEN AbsorbSimilar(reqs, remaining, j + 1, req, theme,
                     [themes |-> MapSet(st.themes, theme,
                                        Append(MapGet(st.themes, theme), other)),
                      used |-> st.used \cup {other}])
             ELSE AbsorbSimilar(reqs, remaining, j + 1, req, theme, st)

\* the outer loop of identifyThemes
RECURSIVE ThemeLoop(_, _, _, _)
ThemeLoop(reqs, remaining, i, st) ==
    IF i > Len(remaining) THEN st
    ELSE LET req == remaining[i]
             theme == extractTheme(reqs[req])
             themes0 == IF MapHas(st.themes, theme) THEN st.themes
                        ELSE MapSet(st.themes, theme, <<>>)
             st1 == [themes |-> MapSet(themes0, theme, Append(MapGet(themes0, theme), req)),
                     used |-> st.used \cup {req}]
         IN  IF req \in st.used THEN ThemeLoop(reqs, remaining, i + 1, st)
             ELSE ThemeLoop(reqs, remaining, i + 1,
                            AbsorbSimilar(reqs, remaining, 1, req, theme, st1))

\* identifyThemes of the requirements at the positions remaining
identifyThemes(reqs, remaining) ==
    ThemeLoop(reqs, remaining, 1, [themes |-> <<>>, used |-> {}]).themes

\* "for (const req of related) if (!processed.has(req)) { push; add }"
RECURSIVE ClaimRelated(_, _, _, _)
ClaimRelated(related, k, title, st) ==
    IF k > Len(related) THEN st
    ELSE IF related[k] \in st.processed THEN ClaimRelated(related, k + 1, title, st)
    ELSE ClaimRelated(related, k + 1, title,
            [groups |-> MapSet(st.groups, title,
                               Append(MapGet(st.groups, title), related[k])),
             processed |-> st.processed \cup {related[k]}])

\* the loop of groupRequirements over the feature-type requirements
RECURSIVE ExplicitLoop(_, _, _, _)
ExplicitLoop(reqs, explicitFeatures, i, st) ==
    IF i > Len(explicitFeatures) THEN st
    ELSE LET f == explicitFeatures[i]
             st1 == [groups |-> MapSet(st.groups, reqs[f].title, <<f>>),
                     processed |-> st.processed \cup {f}]
         IN  ExplicitLoop(reqs, explicitFeatures, i + 1,
                 ClaimRelated(findRelatedRequirements(f, reqs), 1, reqs[f].title, st1))

\* "for (const [theme, themeRequirements] of themes) groups.set(theme, ...)"
RECURSIVE MergeThemes(_, _, _)
MergeThemes(themes, k, groups) ==
    IF k > Len(themes) THEN groups
    ELSE MergeThemes(themes, k + 1, MapSet(groups, themes[k].key, themes[k].value))

\* groupRequirements: the ordered map theme -> positions of its requirements
groupRequirements(reqs) ==
    LET explicitFeatures ==
            SelectIdx(Len(reqs), {i \in 1..Len(reqs) : reqs[i].type = "feature"}, 1)
        st == ExplicitLoop(reqs, explicitFeatures, 1, [groups |-> <<>>, processed |-> {}])
        remaining == SelectIdx(Len(reqs), (1..Len(reqs)) \ st.processed, 1)
    IN  MergeThemes(identifyThemes(reqs, remaining), 1, st.groups)

----------------------------------------------------------------------------
(* FeatureExtractor: building a feature from a group.                      *)

\* String.prototype.toUpperCase on the words of the texts
Upper(t) ==
    CASE t \in {"login", "Login"} -> "LOGIN"
      [] t \in {"search", "Search"} -> "SEARCH"
      [] t \in {"rate", "Rate"} -> "RATE"
      [] t \in {"feature", "Feature"} -> "FEATURE"
      [] t \in {"limiting"} -> "LIMITING"
      [] t \in {"general", "General"} -> "GENERAL"
      [] t \in {"lock"} -> "LOCK"
      [] t \in {"account"} -> "ACCOUNT"
      [] t \in {"users", "Users"} -> "USERS"
      [] OTHER -> t

\* theme.replace(/\s+/g, '-').toUpperCase()
RECURSIVE DashUpper(_, _)
DashUpper(str, k) ==
    IF k > Len(str) THEN <<>>
    ELSE IF IsSpace(str[k])
    THEN <<"-">> \o DashUpper(str, SkipSpace(str, k))
    ELSE <<Upper(str[k])>> \o DashUpper(str, k + 1)

\* replace(/\s+/g, ' '): every run of white space becomes one blank
RECURSIVE CollapseSpace(_, _)
CollapseSpace(str, k) ==
    IF k > Len(str) THEN <<>>
    ELSE IF IsSpace(str[k])
    THEN <<" ">> \o CollapseSpace(str, SkipSpace(str, k))
    ELSE <<str[k]>> \o CollapseSpace(str, k + 1)

\* the tokens of str that satisfy keep, in order
RECURSIVE KeepTokens(_, _)
KeepTokens(str, drop) ==
    IF Len(str) = 0 THEN <<>>
    ELSE (IF str[1] \in drop THEN <<>> ELSE <<str[1]>>) \o KeepTokens(Tail(str), drop)

\* sanitizeFeatureName: drop all but letters, digits, white space and '-',
\* collapse white space, trim
sanitizeFeatureName(name) ==
    Trim(CollapseSpace(KeepTokens(name, Punctuation \ {"-"}), 1))

\* the requirement records at the positions of a group
Members(reqs, group) == [k \in 1..Len(group) |-> reqs[group[k]]]

\* determinePriority
determinePriority(requirements) ==
    LET priorities == {requirements[k].priority : k \in 1..Len(requirements)}
    IN  IF "high" \in priorities THEN "high"
        ELSE IF "medium" \in priorities THEN "medium"
        ELSE "low"

\* req.dependencies && req.dependencies.length > 0
HasDependencies(req) == req.dependencies # UndefinedList /\ Len(req.dependencies) > 0

\* estimateComplexity
estimateComplexity(requirements) ==
    LET count == Len(requirements)
        hasDependencies == \E k \in 1..Len(requirements) : HasDependencies(requirements[k])
        actors == {requirements[k].actor : k \in {j \in 1..Len(requirements) :
                                                   ~Falsy(requirements[j].actor)}}
    IN  IF count > 5 \/ hasDependencies \/ Cardinality(actors) > 1 THEN "complex"
        ELSE IF count > 2 THEN "medium"
        ELSE "simple"

\* createUserFlowFromStory
createUserFlowFromStory(story) ==
    UserFlow(story.id \o <<"-flow">>,
             IF Falsy(story.goal) THEN <<"User", " ", "Flow">> ELSE story.goal,
             story.description,
             <<<<"User", " ", "initiates", " ", "action">>,
               IF Falsy(story.goal) THEN <<"Complete", " ", "goal">> ELSE story.goal,
               IF Falsy(story.value) THEN <<"Achieve", " ", "value">> ELSE story.value>>,
             IF Falsy(story.actor) THEN <<"User">> ELSE story.actor)

\* str.split(separator) where a separator is a token of seps together with
\* the run of white space after it (after > 0) or the token alone
RECURSIVE SplitAt(_, _, _)
SplitAt(str, seps, after) ==
    LET hits == {k \in 1..Len(str) :
                    /\ Lower(str[k]) \in seps
                    /\ (after > 0 => IsSpace(At(str, k + 1)))}
    IN  IF hits = {} THEN <<str>>
        ELSE LET k == Least(hits)
                 rest == IF after > 0 THEN SkipSpace(str, k + 1) ELSE k + 1
             IN  <<SubSeq(str, 1, k - 1)>> \o SplitAt(SubSeq(str, rest, Len(str)), seps, after)

\* .map(step => step.trim()).filter(step => step.length > 0)
RECURSIVE TrimNonEmpty(_)
TrimNonEmpty(parts) ==
    IF Len(parts) = 0 THEN <<>>
    ELSE (IF Trim(parts[1]) # <<>> THEN <<Trim(parts[1])>> ELSE <<>>)
         \o TrimNonEmpty(Tail(parts))

\* parseCriteriaIntoSteps: split on when/then/and/given followed by white
\* space, else on sentence punctuation; no word of the texts ends in one of
\* the four keywords
parseCriteriaIntoSteps(criteria) ==
    LET steps == TrimNonEmpty(SplitAt(criteria, {"when", "then", "and", "given"}, 1))
    IN  IF Len(steps) = 1
        THEN TrimNonEmpty(SplitAt(criteria, {".", "!", "?"}, 0))
        ELSE steps

\* the flows extractUserFlows derives from the acceptance criteria of req
RECURSIVE CriteriaFlows(_, _)
CriteriaFlows(req, i) ==
    IF i > Len(req.acceptanceCriteria) THEN <<>>
    ELSE LET criteria == req.acceptanceCriteria[i]
             steps == parseCriteriaIntoSteps(criteria)
         IN  (IF Len(steps) > 1
              THEN <<UserFlow(req.id \o <<"-flow-">> \o NumberToString(i - 1),
                              <<"Flow", " ", "for", " ">> \o Interpolate(req.title),
                              criteria, steps,
                              IF Falsy(req.actor) THEN <<"User">> ELSE req.actor)>>
              ELSE <<>>) \o CriteriaFlows(req, i + 1)

\* extractUserFlows
RECURSIVE extractUserFlows(_)
extractUserFlows(requirements) ==
    IF Len(requirements) = 0 THEN <<>>
    ELSE LET req == requirements[1]
         IN  (IF req.type = "user-story" /\ ~Falsy(req.actor) /\ ~Falsy(req.goal)
              THEN <<createUserFlowFromStory(req)>> ELSE <<>>)
             \o (IF req.acceptanceCriteria # UndefinedList
                 THEN CriteriaFlows(req, 1) ELSE <<>>)
             \o extractUserFlows(Tail(requirements))

\* dependencies.add(dep) for each dep: a Set keeps the order of first insertion
RECURSIVE AddAll(_, _)
AddAll(acc, deps) ==
    IF Len(deps) = 0 THEN acc
    ELSE AddAll(IF deps[1] \in Range(acc) THEN acc ELSE Append(acc, deps[1]), Tail(deps))

\* extractDependencies: the distinct dependencies in order of first occurrence
RECURSIVE extractDependencies(_)
extractDependencies(requirements) ==
    IF Len(requirements) = 0 THEN <<>>
    ELSE LET req == requirements[Len(requirements)]
             before == extractDependencies(SubSeq(requirements, 1, Len(requirements) - 1))
         IN  AddAll(before, IF req.dependencies = UndefinedList THEN <<>>
                            ELSE req.dependencies)

\* Math.ceil(n / d) for n >= 0, d > 0
CeilDiv(n, d) == (n + d - 1) \div d

\* req.acceptanceCriteria?.length || 0
CriteriaCount(req) ==
    IF req.acceptanceCriteria = UndefinedList THEN 0 ELSE Len(req.acceptanceCriteria)

RECURSIVE TotalCriteria(_)
TotalCriteria(requirements) ==
    IF Len(requirements) = 0 THEN 0
    ELSE CriteriaCount(requirements[1]) + TotalCriteria(Tail(requirements))

\* estimateScenarios
estimateScenarios(requirements, userFlows) ==
    LET complexFlows == {k \in 1..Len(userFlows) : Len(userFlows[k].steps) > 3}
    IN  Max(Len(requirements) + Cardinality(complexFlows)
               + CeilDiv(TotalCriteria(requirements), 3), 1)

\* generateDescription: the first three non-empty descriptions joined by ' '
RECURSIVE JoinWith(_, _)
JoinWith(parts, sep) ==
    IF Len(parts) = 0 THEN <<>>
    ELSE IF Len(parts) = 1 THEN parts[1]
    ELSE parts[1] \o sep \o JoinWith(Tail(parts), sep)

RECURSIVE Descriptions(_)
Descriptions(requirements) ==
    IF Len(requirements) = 0 THEN <<>>
    ELSE (IF Falsy(requirements[1].description) THEN <<>>
          ELSE <<requirements[1].description>>) \o Descriptions(Tail(requirements))

generateDescription(theme, requirements) ==
    LET descriptions == SubSeq(Descriptions(requirements), 1,
                               Min(3, Len(Descriptions(requirements))))
        joined == JoinWith(descriptions, <<" ">>)
    IN  IF joined = <<>>
        THEN <<"Feature", " ", "related", " ", "to", " ">> \o theme
        ELSE joined

\* requirements.filter(req => req.type !== 'acceptance-criteria')
RECURSIVE WithoutCriteriaRecords(_)
WithoutCriteriaRecords(requirements) ==
    IF Len(requirements) = 0 THEN <<>>
    ELSE (IF requirements[1].type # "acceptance-criteria"
          THEN <<requirements[1]>> ELSE <<>>)
         \o WithoutCriteriaRecords(Tail(requirements))

\* variant: every feature names itself as a dependency
createFeatureDependingOnItself(theme, requirements) ==
    LET userFlows == extractUserFlows(requirements)
    IN  [id |-> <<"FEAT-">> \o DashUpper(theme, 1),
         name |-> sanitizeFeatureName(theme),
         description |-> generateDescription(theme, requirements),
         requirements |-> WithoutCriteriaRecords(requirements),
         dependencies |-> <<<<"FEAT-">> \o DashUpper(theme, 1)>>,
         priority |-> determinePriority(requirements),
         complexity |-> estimateComplexity(requirements),
         estimatedScenarios |-> estimateScenarios(requirements, userFlows),
         userFlows |-> userFlows]

\* createFeature
createFeature(theme, requirements) ==
    LET userFlows == extractUserFlows(requirements)
    IN  [id |-> <<"FEAT-">> \o DashUpper(theme, 1),
         name |-> sanitizeFeatureName(theme),
         description |-> generateDescription(theme, requirements),
         requirements |-> WithoutCriteriaRecords(requirements),
         dependencies |-> extractDependencies(requirements),
         priority |-> determinePriority(requirements),
         complexity |-> estimateComplexity(requirements),
         estimatedScenarios |-> estimateScenarios(requirements, userFlows),
         userFlows |-> userFlows]

\* createFeatureFromRequirement
createFeatureFromRequirement(requirement) ==
    [id |-> <<"FEAT-">> \o requirement.id,
     name |-> sanitizeFeatureName(
                 IF ~Falsy(requirement.title) THEN requirement.title
                 ELSE IF ~Falsy(requirement.goal) THEN requirement.goal
                 ELSE <<"General">>),
     description |-> requirement.description,
     requirements |-> <<requirement>>,
     dependencies |-> IF requirement.dependencies = UndefinedList THEN <<>>
                      ELSE requirement.dependencies,
     priority |-> requirement.priority,
     complexity |-> "medium",
     estimatedScenarios |-> 1,
     userFlows |-> IF requirement.type = "user-story"
                   THEN <<createUserFlowFromStory(requirement)>> ELSE <<>>]

\* "for (const [theme, requirements] of requirementGroups) features.push(...)"
CreateFeatures(reqs, groups) ==
    [k \in 1..Len(groups) |-> createFeature(groups[k].key, Members(reqs, groups[k].value))]

\* const priorityOrder = { high: 3, medium: 2, low: 1 } of the sort comparator
priorityOrder == [high |-> 3, medium |-> 2, low |-> 1]

----------------------------------------------------------------------------
(* ScenarioGenerator.  Confidence is kept in tenths (0.9 is 9).            *)

OptionKeys ==
    {"includeEdgeCases", "includeErrorCases", "includeIntegrationScenarios",
     "maxScenariosPerFlow", "detailLevel"}

\* ScenarioGenerator.defaultOptions as constructed
DefaultOptions ==
    [includeEdgeCases |-> TRUE, includeErrorCases |-> TRUE,
     includeIntegrationScenarios |-> TRUE, maxScenariosPerFlow |-> 5,
     detailLevel |-> "standard"]

\* a Partial<ScenarioGenerationOptions>: the keys given and their values
PartialOptions(given, values) == [given |-> given, values |-> values]

NoOptions == PartialOptions({}, DefaultOptions)

\* { ...defaults, ...options }
Spread(defaults, options) ==
    [k \in OptionKeys |-> IF k \in options.given THEN options.values[k] ELSE defaults[k]]

\* variant: Object.assign(this.defaultOptions, options), the field is overwritten
MergeOptionsInPlace(defaults, options) ==
    [opts |-> Spread(defaults, options), defaultOptions |-> Spread(defaults, options)]

\* const opts = { ...this.defaultOptions, ...options }: the options of the
\* call and the field defaultOptions after it
MergeOptions(defaults, options) ==
    [opts |-> Spread(defaults, options), defaultOptions |-> defaults]

Step(keyword, text, line) == [keyword |-> keyword, text |-> text, line |-> line]

Scenario(name, description, tags, steps, type, source, confidence) ==
    [name |-> name, description |-> description, tags |-> tags, steps |-> steps,
     type |-> type, source |-> source, confidence |-> confidence]

\* str.toLowerCase()
LowerAll(str) == [k \in 1..Len(str) |-> Lower(str[k])]

\* replace(/[^a-zA-Z0-9\s]/g, ' '): one blank per character replaced
RECURSIVE BlankPunctuation(_)
BlankPunctuation(str) ==
    IF Len(str) = 0 THEN <<>>
    ELSE (CASE str[1] = "##" -> <<" ", " ">>
            [] str[1] = "###" -> <<" ", " ", " ">>
            [] str[1] \in Punctuation \ {"##", "###"} -> <<" ">>
            [] OTHER -> <<str[1]>>) \o BlankPunctuation(Tail(str))

\* generateScenarioName
generateScenarioName(baseName, type) ==
    LET cleanName == Trim(BlankPunctuation(baseName))
    IN  CASE type = "success" -> cleanName \o <<" ", "-", " ", "Success">>
          [] type = "partial" -> cleanName \o <<" ", "-", " ", "Partial", " ", "completion">>
          [] OTHER -> cleanName

\* the flow steps as When / And steps numbered from line on
FlowSteps(steps, line) ==
    [k \in 1..Len(steps) |->
        Step(IF k = 1 THEN "When" ELSE "And", steps[k], line + k - 1)]

\* generateStepsFromFlow
generateStepsFromFlow(flow, type) ==
    <<Step("Given",
           <<"the", " ">> \o LowerAll(flow.actor)
               \o <<" ", "is", " ", "on", " ", "the", " ", "relevant", " ", "screen">>, 1)>>
    \o FlowSteps(flow.steps, 2)
    \o <<Step("Then", <<"the", " ", "expected", " ", "outcome", " ", "should", " ", "occur">>,
              Len(flow.steps) + 2)>>

\* generatePartialSteps
generatePartialSteps(flow) ==
    LET partialFlow == SubSeq(flow.steps, 1, Len(flow.steps) \div 2)
    IN  <<Step("Given",
               <<"the", " ">> \o LowerAll(flow.actor)
                   \o <<" ", "is", " ", "performing", " ", "an", " ", "action">>, 1)>>
        \o FlowSteps(partialFlow, 2)
        \o <<Step("Then",
                  <<"the", " ", "system", " ", "should", " ", "handle", " ", "partial",
                    " ", "completion">>, Len(partialFlow) + 2)>>

\* Array.prototype.slice(0, end) with a possibly negative end
SliceTo(s, end) ==
    LET to == IF end < 0 THEN Max(Len(s) + end, 0) ELSE Min(end, Len(s))
    IN  SubSeq(s, 1, to)

\* variant: every scenario of the flow is returned, the limit is not applied
generateScenariosFromFlowUncut(flow, feature, options) ==
    <<Scenario(generateScenarioName(flow.name, "success"), flow.description,
               <<<<"@happy-path">>, <<"@actor-">> \o LowerAll(flow.actor)>>,
               generateStepsFromFlow(flow, "happy-path"),
               "happy-path", "user-story", 9)>>
    \o (IF options.detailLevel = "detailed" /\ Len(flow.steps) > 2
        THEN <<Scenario(generateScenarioName(flow.name, "partial"),
                        <<"Partial", " ", "completion", " ", "of", " ">> \o flow.name,
                        <<<<"@partial">>>>, generatePartialSteps(flow),
                        "edge-case", "generated", 7)>>
        ELSE <<>>)

\* generateScenariosFromFlow
generateScenariosFromFlow(flow, feature, options) ==
    LET happyPath ==
            Scenario(generateScenarioName(flow.name, "success"), flow.description,
                     <<<<"@happy-path">>, <<"@actor-">> \o LowerAll(flow.actor)>>,
                     generateStepsFromFlow(flow, "happy-path"),
                     "happy-path", "user-story", 9)
        partialScenario ==
            Scenario(generateScenarioName(flow.name, "partial"),
                     <<"Partial", " ", "completion", " ", "of", " ">> \o flow.name,
                     <<<<"@partial">>>>, generatePartialSteps(flow),
                     "edge-case", "generated", 7)
        scenarios ==
            <<happyPath>> \o
            (IF options.detailLevel = "detailed" /\ Len(flow.steps) > 2
             THEN <<partialScenario>> ELSE <<>>)
    IN  SliceTo(scenarios, options.maxScenariosPerFlow)

RECURSIVE AllFlowScenarios(_, _, _)
AllFlowScenarios(flows, feature, options) ==
    IF Len(flows) = 0 THEN <<>>
    ELSE generateScenariosFromFlow(flows[1], feature, options)
         \o AllFlowScenarios(Tail(flows), feature, options)

MaxCriteriaPerGroup == 5

\* variant: the criteria are not cut into slices, one group holds them all
groupRelatedCriteriaUncut(criteria) == IF Len(criteria) = 0 THEN <<>> ELSE <<criteria>>

\* groupRelatedCriteria: slices of at most 5
RECURSIVE groupRelatedCriteria(_)
groupRelatedCriteria(criteria) ==
    IF Len(criteria) = 0 THEN <<>>
    ELSE <<SubSeq(criteria, 1, Min(MaxCriteriaPerGroup, Len(criteria)))>>
         \o groupRelatedCriteria(SubSeq(criteria, MaxCriteriaPerGroup + 1, Len(criteria)))

\* generateStepsFromCriteria
generateStepsFromCriteria(criteria) ==
    <<Step("Given", <<"the", " ", "system", " ", "is", " ", "in", " ", "the", " ",
                      "initial", " ", "state">>, 1),
      Step("When", <<"the", " ", "relevant", " ", "action", " ", "is", " ",
                     "performed">>, 2)>>
    \o [k \in 1..Len(criteria) |->
           Step(IF k = 1 THEN "Then" ELSE "And", criteria[k], k + 2)]

\* generateScenariosFromCriteria
RECURSIVE generateScenariosFromCriteria(_)
generateScenariosFromCriteria(requirements) ==
    IF Len(requirements) = 0 THEN <<>>
    ELSE LET req == requirements[1]
             groups == IF req.acceptanceCriteria = UndefinedList THEN <<>>
                       ELSE groupRelatedCriteria(req.acceptanceCriteria)
         IN  [k \in 1..Len(groups) |->
                 Scenario(generateScenarioName(Interpolate(req.title), "criteria"),
                          req.description, <<<<"@acceptance-criteria">>>>,
                          generateStepsFromCriteria(groups[k]),
                          "happy-path", "acceptance-criteria", 8)]
             \o generateScenariosFromCriteria(Tail(requirements))

\* the lower-cased words of the texts that contain the given word
WordsContaining(word) ==
    CASE word = "search" -> {"search", "searching", "research"}
      [] word = "filter" -> {"filter", "filters", "filtering"}
      [] word = "auth"   -> {"auth", "authentication", "authorize", "author"}
      [] word = "login"  -> {"login", "logins"}

\* name.toLowerCase().includes(word)
Includes(name, word) == \E k \in 1..Len(name) : Lower(name[k]) \in WordsContaining(word)

\* variant: only the concurrent scenario, whatever the feature name
generateEdgeCasesConcurrentOnly(feature) ==
    <<Scenario(<<"Multiple", " ", "users", " ", "performing", " ", "actions", " ",
                 "simultaneously">>,
               Undefined, <<<<"@edge-case">>, <<"@concurrent">>>>,
               <<Step("Given", <<"multiple", " ", "users", " ", "are", " ", "active",
                                 " ", "in", " ", "the", " ", "system">>, 1),
                 Step("When", <<"users", " ", "perform", " ", "actions", " ",
                                "simultaneously">>, 2),
                 Step("Then", <<"all", " ", "actions", " ", "should", " ", "be", " ",
                                "processed", " ", "correctly">>, 3),
                 Step("And", <<"data", " ", "integrity", " ", "should", " ", "be",
                               " ", "maintained">>, 4)>>,
               "edge-case", "generated", 7)>>

\* generateEdgeCases; feature.actor is no field of a feature, so 'users'
generateEdgeCases(feature) ==
    (IF Includes(feature.name, "search") \/ Includes(feature.name, "filter")
     THEN <<Scenario(feature.name \o <<" ", "with", " ", "boundary", " ", "values">>,
                     Undefined, <<<<"@edge-case">>, <<"@boundary">>>>,
                     <<Step("Given", <<"the", " ", "system", " ", "is", " ", "at", " ",
                                       "maximum", " ", "capacity">>, 1),
                       Step("When", <<"the", " ", "user", " ", "performs", " ", "the",
                                      " ", "action">>, 2),
                       Step("Then", <<"the", " ", "system", " ", "should", " ", "handle",
                                      " ", "gracefully">>, 3)>>,
                     "edge-case", "generated", 6)>>
     ELSE <<>>)
    \o <<Scenario(<<"Multiple", " ", "users", " ", "performing", " ", "actions", " ",
                    "simultaneously">>,
                  Undefined, <<<<"@edge-case">>, <<"@concurrent">>>>,
                  <<Step("Given", <<"multiple", " ", "users", " ", "are", " ", "active",
                                    " ", "in", " ", "the", " ", "system">>, 1),
                    Step("When", <<"users", " ", "perform", " ", "actions", " ",
                                   "simultaneously">>, 2),
                    Step("Then", <<"all", " ", "actions", " ", "should", " ", "be", " ",
                                   "processed", " ", "correctly">>, 3),
                    Step("And", <<"data", " ", "integrity", " ", "should", " ", "be",
                                  " ", "maintained">>, 4)>>,
                  "edge-case", "generated", 7)>>

\* generateErrorCases
generateErrorCases(feature) ==
    <<Scenario(feature.name \o <<" ", "with", " ", "network", " ", "failure">>,
               Undefined, <<<<"@error-case">>, <<"@network">>>>,
               <<Step("Given", <<"the", " ", "network", " ", "connection", " ", "is",
                                 " ", "unavailable">>, 1),
                 Step("When", <<"the", " ", "user", " ", "attempts", " ", "to", " ",
                                "perform", " ", "the", " ", "action">>, 2),
                 Step("Then", <<"the", " ", "system", " ", "should", " ", "display", " ",
                                "appropriate", " ", "error", " ", "message">>, 3),
                 Step("And", <<"the", " ", "system", " ", "should", " ", "retry", " ",
                               "connection", " ", "when", " ", "available">>, 4)>>,
               "error-case", "generated", 8),
      Scenario(feature.name \o <<" ", "with", " ", "invalid", " ", "input">>,
               Undefined, <<<<"@error-case">>, <<"@validation">>>>,
               <<Step("Given", <<"the", " ", "user", " ", "provides", " ", "invalid",
                                 " ", "input">>, 1),
                 Step("When", <<"the", " ", "user", " ", "submits", " ", "the", " ",
                                "form">>, 2),
                 Step("Then", <<"the", " ", "system", " ", "should", " ", "validate",
                                " ", "the", " ", "input">>, 3),
                 Step("And", <<"the", " ", "system", " ", "should", " ", "show", " ",
                               "specific", " ", "error", " ", "messages">>, 4),
                 Step("And", <<"the", " ", "system", " ", "should", " ", "preserve",
                               " ", "valid", " ", "input">>, 5)>>,
               "error-case", "generated", 9)>>
    \o (IF Includes(feature.name, "auth") \/ Includes(feature.name, "login")
        THEN <<Scenario(<<"Unauthorized", " ", "access", " ", "attempt">>,
                        Undefined, <<<<"@error-case">>, <<"@security">>>>,
                        <<Step("Given", <<"the", " ", "user", " ", "is", " ", "not", " ",
                                          "authenticated">>, 1),
                          Step("When", <<"the", " ", "user", " ", "tries", " ", "to",
                                         " ", "access", " ", "protected", " ",
                                         "resources">>, 2),
                          Step("Then", <<"the", " ", "system", " ", "should", " ", "deny",
                                         " ", "access">>, 3),
                          Step("And", <<"the", " ", "system", " ", "should", " ",
                                        "redirect", " ", "to", " ", "login">>, 4)>>,
                        "error-case", "generated", 9)>>
        ELSE <<>>)

\* generateIntegrationScenarios
generateIntegrationScenarios(feature) ==
    [k \in 1..Len(feature.dependencies) |->
        LET dependency == feature.dependencies[k]
        IN  Scenario(feature.name \o <<" ", "integrates", " ", "with", " ">> \o dependency,
                     Undefined,
                     <<<<"@integration">>, <<"@dependency-">> \o dependency>>,
                     <<Step("Given", dependency \o <<" ", "service", " ", "is", " ",
                                                     "available">>, 1),
                       Step("And", <<"the", " ", "system", " ", "is", " ", "configured",
                                     " ", "to", " ", "use", " ">> \o dependency, 2),
                       Step("When", <<"the", " ", "feature", " ", "needs", " ", "to", " ",
                                      "communicate", " ", "with", " ">> \o dependency, 3),
                       Step("Then", <<"the", " ", "integration", " ", "should", " ",
                                      "work", " ", "seamlessly">>, 4),
                       Step("And", <<"data", " ", "should", " ", "be", " ",
                                     "synchronized", " ", "correctly">>, 5)>>,
                     "integration", "generated", 7)]

\* `${scenario.name}-${scenario.steps.map(s => s.text).join('|')}`
ScenarioKey(scenario) ==
    scenario.name \o <<"-">>
    \o JoinWith([k \in 1..Len(scenario.steps) |-> scenario.steps[k].text], <<"|">>)

\* deduplicateScenarios
RECURSIVE Deduplicate(_, _, _)
Deduplicate(scenarios, k, st) ==
    IF k > Len(scenarios) THEN st.unique
    ELSE LET key == ScenarioKey(scenarios[k])
         IN  Deduplicate(scenarios, k + 1,
                 IF key \in st.seen THEN st
                 ELSE [seen |-> st.seen \cup {key},
                       unique |-> Append(st.unique, scenarios[k])])

\* variant: a key already seen does not stop the scenario from being kept
deduplicateScenariosKeepAll(scenarios) == scenarios

deduplicateScenarios(scenarios) ==
    Deduplicate(scenarios, 1, [seen |-> {}, unique |-> <<>>])

\* the lower-cased tokens of scenario names in the order of the collation
\* used by localeCompare: white space, punctuation, digits, letters
CollationOrder ==
    <<" ", "-", "0", "1", "2", "3", "4", "5", "6", "7", "8", "9",
      "a", "access", "account", "action", "actions", "admin", "after", "an", "as",
      "attempt", "attempts", "audit", "billing", "block", "boundary", "can",
      "checkout", "completion", "daily",
      "enter", "failed", "failure", "feat", "feature", "filter", "flow", "for",
      "general", "high", "i", "initiates", "input", "integrates", "invalid",
      "limiting", "lock", "login", "multiple", "must", "my", "network", "partial",
      "password", "performing", "prd", "rate", "search", "shop", "simultaneously",
      "so", "story", "success", "that", "to", "unauthorized", "undefined", "user",
      "users", "values", "want", "with", "works">>

TokenRank(t) == CHOOSE k \in 1..Len(CollationOrder) : CollationOrder[k] = Lower(t)

\* String.prototype.localeCompare: letters compare without case first; between
\* names equal up to case, lower case sorts first at the first difference
localeCompare(a, b) ==
    LET n == Min(Len(a), Len(b))
        diffs == {k \in 1..n : TokenRank(a[k]) # TokenRank(b[k])}
        caseDiffs == {k \in 1..n : a[k] # b[k]}
    IN  IF diffs # {}
        THEN (IF TokenRank(a[Least(diffs)]) < TokenRank(b[Least(diffs)]) THEN -1 ELSE 1)
        ELSE IF Len(a) # Len(b) THEN (IF Len(a) < Len(b) THEN -1 ELSE 1)
        ELSE IF caseDiffs # {}
        THEN (IF a[Least(caseDiffs)] = Lower(a[Least(caseDiffs)]) THEN -1 ELSE 1)
        ELSE 0

TypeOrder(type) ==
    CASE type = "happy-path" -> 1 [] type = "integration" -> 2
      [] type = "edge-case" -> 3 [] type = "error-case" -> 4

\* variant: a.confidence - b.confidence, the lower confidence first
CompareScenariosLowConfidenceFirst(a, b) ==
    IF TypeOrder(a.type) - TypeOrder(b.type) # 0
    THEN TypeOrder(a.type) - TypeOrder(b.type)
    ELSE IF a.confidence - b.confidence # 0
    THEN a.confidence - b.confidence
    ELSE localeCompare(a.name, b.name)

\* the comparator of sortScenariosByPriority
CompareScenarios(a, b) ==
    IF TypeOrder(a.type) - TypeOrder(b.type) # 0
    THEN TypeOrder(a.type) - TypeOrder(b.type)
    ELSE IF b.confidence - a.confidence # 0
    THEN b.confidence - a.confidence
    ELSE localeCompare(a.name, b.name)

\* insertion of x behind the last element that does not sort after it
InsertSorted(sorted, x) ==
    LET before == {k \in 0..Len(sorted) :
                      \A j \in (k + 1)..Len(sorted) : CompareScenarios(x, sorted[j]) < 0}
        k == Least(before)
    IN  SubSeq(sorted, 1, k) \o <<x>> \o SubSeq(sorted, k + 1, Len(sorted))

\* sortScenariosByPriority: Array.prototype.sort is stable
RECURSIVE sortScenariosByPriority(_)
sortScenariosByPriority(scenarios) ==
    IF Len(scenarios) = 0 THEN <<>>
    ELSE InsertSorted(sortScenariosByPriority(SubSeq(scenarios, 1, Len(scenarios) - 1)),
                      scenarios[Len(scenarios)])

\* variant: the error cases are generated whatever includeErrorCases says
generateScenariosErrorCasesAlways(feature, opts) ==
    sortScenariosByPriority(deduplicateScenarios(
        AllFlowScenarios(feature.userFlows, feature, opts)
        \o generateScenariosFromCriteria(feature.requirements)
        \o (IF opts.includeEdgeCases THEN generateEdgeCases(feature) ELSE <<>>)
        \o generateErrorCases(feature)
        \o (IF opts.includeIntegrationScenarios /\ Len(feature.dependencies) > 0
            THEN generateIntegrationScenarios(feature) ELSE <<>>)))

\* generateScenarios with the merged options opts
generateScenarios(feature, opts) ==
    sortScenariosByPriority(deduplicateScenarios(
        AllFlowScenarios(feature.userFlows, feature, opts)
        \o generateScenariosFromCriteria(feature.requirements)
        \o (IF opts.includeEdgeCases THEN generateEdgeCases(feature) ELSE <<>>)
        \o (IF opts.includeErrorCases THEN generateErrorCases(feature) ELSE <<>>)
        \o (IF opts.includeIntegrationScenarios /\ Len(feature.dependencies) > 0
            THEN generateIntegrationScenarios(feature) ELSE <<>>)))

----------------------------------------------------------------------------
(* RequirementsAnalyzer: the report built by analyzePRD behind the         *)
(* extraction.                                                             *)

\* "for (const feature of features) scenarios.set(feature.id, ...)"
RECURSIVE CollectScenarios(_, _, _)
CollectScenarios(fs, opts, map) ==
    IF Len(fs) = 0 THEN map
    ELSE CollectScenarios(Tail(fs), opts,
                          MapSet(map, fs[1].id, generateScenarios(fs[1], opts)))

\* Array.from(scenarios.values()).reduce((total, list) => total + list.length, 0)
RECURSIVE TotalScenarios(_)
TotalScenarios(map) ==
    IF Len(map) = 0 THEN 0 ELSE Len(map[1].value) + TotalScenarios(Tail(map))

\* createSummary
createSummary(fs, map) ==
    [totalFeatures |-> Len(fs),
     totalScenarios |-> TotalScenarios(map),
     byComplexity |-> CountBy(fs, "complexity"),
     byPriority |-> CountBy(fs, "priority")]

\* Array.from(scenarios.values()).flat()
RECURSIVE FlatValues(_)
FlatValues(map) == IF Len(map) = 0 THEN <<>> ELSE map[1].value \o FlatValues(Tail(map))

\* the number of elements of the list that pass the test
CountOf(list, Test(_)) == Cardinality({k \in 1..Len(list) : Test(list[k])})

\* .filter(s => s.tags.includes('@edge-case')).length
EdgeCaseScenarios(map) ==
    CountOf(FlatValues(map),
            LAMBDA sc : \E t \in 1..Len(sc.tags) : sc.tags[t] = <<"@edge-case">>)

\* generateRecommendations: the recommendations pushed, by what they are about
generateRecommendations(p, fs, map) ==
    (IF CountOf(p.requirements, LAMBDA r : r.type = "user-story") = 0
     THEN <<"user stories">> ELSE <<>>)
    \o (IF CountOf(fs, LAMBDA f : ~MapHas(map, f.id) \/ Len(MapGet(map, f.id)) = 0) > 0
        THEN <<"features without scenarios">> ELSE <<>>)
    \o (IF 2 * CountOf(fs, LAMBDA f : f.complexity = "complex") > Len(fs)
        THEN <<"complex features">> ELSE <<>>)
    \o (IF CountOf(fs, LAMBDA f : f.priority = "high") = 0
        THEN <<"no high priority">> ELSE <<>>)
    \o (IF CountOf(fs, LAMBDA f : Len(f.dependencies) > 0) > 0
        THEN <<"implementation order">> ELSE <<>>)
    \o (IF Len(fs) # 0 /\ TotalScenarios(map) < 2 * Len(fs)
        THEN <<"more scenarios">> ELSE <<>>)
    \o (IF EdgeCaseScenarios(map) = 0 THEN <<"edge cases">> ELSE <<>>)

\* analyzePRD from line 80 on, for the features at hand
Report(p, fs, map) ==
    [prd |-> p, features |-> fs, scenarios |-> map,
     summary |-> createSummary(fs, map),
     recommendations |-> generateRecommendations(p, fs, map)]

----------------------------------------------------------------------------
(* Inputs of the validation specifications.                                *)

MaxValidatedRequirements == 2
MaxValidatedFeatures == 1
MaxGraphFeatures == 3

ValidatedRequirements ==
    {Requirement(id, title, description, type) :
        id \in {<<"REQ-", "0", "0", "1">>, <<"REQ-", "0", "0", "2">>},
        title \in {<<"Login">>, <<>>, <<" ">>},
        description \in {<<"works">>, Undefined},
        type \in {"requirement", "acceptance-criteria"}}

PlainRequirement ==
    Requirement(<<"REQ-", "0", "0", "1">>, <<"Login">>, <<"works">>, "requirement")

StoryFlow ==
    UserFlow(<<"REQ-", "0", "0", "1", "-flow">>, <<"login">>, <<"works">>,
             <<<<"User", " ", "initiates", " ", "action">>, <<"login">>,
               <<"Achieve", " ", "value">>>>, <<"user">>)

ValidatedFeatures ==
    {Feature(<<"FEAT-A">>, <<"Login">>, requirements, dependencies, userFlows) :
        requirements \in {<<PlainRequirement>>,
                          [i \in 1..(LargeFeatureLimit + 1) |-> PlainRequirement]},
        dependencies \in {<<>>, <<<<"FEAT-A">>>>},
        userFlows \in {<<>>, <<StoryFlow>>, <<[StoryFlow EXCEPT !.actor = <<>>]>>}}

GraphIds == {<<"FEAT-A">>, <<"FEAT-B">>, <<"FEAT-C">>}

GraphDependencies ==
    {<<>>, <<<<"FEAT-A">>>>, <<<<"FEAT-B">>>>, <<<<"FEAT-C">>>>,
     <<<<"FEAT-B">>, <<"FEAT-C">>>>, <<<<"FEAT-D">>>>}

GraphFeatures ==
    {Feature(id, <<"Login">>, <<PlainRequirement>>, dependencies, <<StoryFlow>>) :
        id \in GraphIds, dependencies \in GraphDependencies}

----------------------------------------------------------------------------
(* Inputs of the pipeline specifications.                                  *)

MaxLines == 3
MaxRunLines == 2

StoryLine ==
    <<"As", " ", "a", " ", "user", ",", " ", "I", " ", "want", " ", "to", " ", "login",
      " ", "so", " ", "that", " ", "I", " ", "can", " ", "access", " ", "my", " ",
      "account", ".">>

StoryValueLine ==
    <<"As", " ", "an", " ", "admin", ",", " ", "I", " ", "want", " ", "to", " ",
      "search", ",", " ", "so", " ", "that", " ", "I", " ", "can", " ", "filter", ".">>

RateLine ==
    <<"-", " ", "Rate", " ", "limiting", ":", " ", "must", " ", "block", " ", "after",
      " ", "5", " ", "failed", " ", "attempts", " ", "[", "high", "]">>

FeatureLine == <<"Feature", ":", " ", "Login">>

HeadingLine == <<"##", " ", "Feature", ":", " ", "Login">>

CriterionLine == <<"-", " ", "lock", " ", "account">>

NumberedLine == <<"1", ".", " ", "enter", " ", "password">>

PlainLine == <<"Users", " ", "login", " ", "daily">>

TitleLine == <<"#", " ", "Shop">>

BlankLine == <<>>

Lines ==
    {StoryLine, StoryValueLine, RateLine, FeatureLine, HeadingLine, CriterionLine,
     NumberedLine, PlainLine, TitleLine, BlankLine}

\* the texts analysed, as content.split('\n')
Texts == SeqsUpTo(Lines, MaxLines)

\* the two-line example of the specification
ExampleText == <<StoryLine, RateLine>>

OptionChoices ==
    {NoOptions,
     PartialOptions({"includeErrorCases"}, [DefaultOptions EXCEPT !.includeErrorCases = FALSE]),
     PartialOptions({"detailLevel", "maxScenariosPerFlow"},
                    [DefaultOptions EXCEPT !.detailLevel = "detailed",
                                           !.maxScenariosPerFlow = 1]),
     PartialOptions({"detailLevel"}, [DefaultOptions EXCEPT !.detailLevel = "verbose"])}

RunLines == {StoryLine, RateLine, FeatureLine}

RunTexts == SeqsUpTo(RunLines, MaxRunLines)

RunDocuments == {parseContent(text) : text \in RunTexts}

\* the features createFeature builds from the groups of the run documents
RunFeatures ==
    UNION {{createFeature(group.key, Members(document.requirements, group.value)) :
                group \in Range(groupRequirements(document.requirements))} :
           document \in RunDocuments}

NoFeature == Feature(<<>>, <<>>, <<>>, <<>>, <<>>)

----------------------------------------------------------------------------
(* Inputs of the generator specification.                                  *)

MaxFeatureRequirements == 2
MaxFlows == 2

\* acceptance criteria: the first n of six
Criteria(n) ==
    SubSeq(<<<<"locks", " ", "after", " ", "5", " ", "attempts">>,
             <<"shows", " ", "a", " ", "message">>,
             <<"sends", " ", "a", " ", "mail">>,
             <<"logs", " ", "the", " ", "attempt">>,
             <<"unlocks", " ", "after", " ", "a", " ", "day">>,
             <<"keeps", " ", "the", " ", "password">>>>, 1, n)

\* a requirement of a feature with the given title and acceptance criteria
CriteriaRequirement(title, criteria) ==
    [Requirement(<<"REQ-", "0", "0", "1">>, title, <<"works">>, "feature")
        EXCEPT !.acceptanceCriteria = criteria]

GeneratorRequirements ==
    {CriteriaRequirement(<<"Lock">>, Criteria(1)),
     CriteriaRequirement(<<"Audit">>, Criteria(6)),
     CriteriaRequirement(<<"Lock">>, UndefinedList)}

ShortFlow ==
    UserFlow(<<"REQ-", "0", "0", "1", "-flow">>, <<"login">>,
             <<"As", " ", "a", " ", "user">>, <<<<"login">>>>, <<"user">>)

LongFlow ==
    UserFlow(<<"REQ-", "0", "0", "2", "-flow">>, <<"Checkout">>,
             <<"As", " ", "an", " ", "admin">>,
             <<<<"enter", " ", "password">>, <<"lock", " ", "account">>,
               <<"search">>>>, <<"Admin">>)

GeneratorFlows == {ShortFlow, LongFlow}

GeneratorNames == {<<"Login">>, <<"Search">>}

GeneratorDependencies == {<<>>, <<<<"Billing">>>>}

GeneratorFeatures ==
    {Feature(<<"FEAT-">> \o name, name, requirements, dependencies, userFlows) :
        name \in GeneratorNames,
        requirements \in SeqsUpTo(GeneratorRequirements, MaxFeatureRequirements),
        dependencies \in GeneratorDependencies,
        userFlows \in SeqsUpTo(GeneratorFlows, MaxFlows)}

\* options that set the two inclusion flags, the detail level and the limit
GeneratorOptions ==
    {PartialOptions({"includeEdgeCases", "includeErrorCases", "detailLevel",
                     "maxScenariosPerFlow"},
                    [DefaultOptions EXCEPT !.includeEdgeCases = edge,
                                           !.includeErrorCases = error,
                                           !.detailLevel = level,
                                           !.maxScenariosPerFlow = limit]) :
        edge \in BOOLEAN, error \in BOOLEAN, level \in {"standard", "detailed"},
        limit \in {-1, 0, 1, 5}}

----------------------------------------------------------------------------
(* Inputs of the helper specifications.                                    *)

MaxKeywords == 3

KeywordCatalogue == {"login", "account", "rate", "limiting"}

\* the keyword lists handed to calculateSimilarity, as the Sets it makes of them
KeywordSets == {S \in SUBSET KeywordCatalogue : Cardinality(S) <= MaxKeywords}

----------------------------------------------------------------------------
(* Inputs of the report specification.                                     *)

MaxReportLines == 2

ReportLines == {StoryLine, StoryValueLine, RateLine, HeadingLine}

ReportTexts == SeqsUpTo(ReportLines, MaxReportLines)

ReportDocuments == {parseContent(text) : text \in ReportTexts}

\* the features extractFeatures has built when its group loop is through
GroupFeatures(document) ==
    CreateFeatures(document.requirements, groupRequirements(document.requirements))

ReportOptions ==
    OptionChoices \cup
    {PartialOptions({"includeEdgeCases", "detailLevel"},
                    [DefaultOptions EXCEPT !.includeEdgeCases = FALSE,
                                           !.detailLevel = level]) :
        level \in {"standard", "detailed"}}

----------------------------------------------------------------------------
(* Inputs of the grouping specification.                                   *)

MaxGroupedLines == 3

LoginItemLine == <<"-", " ", "Login", ":", " ", "login">>

RateLoginLine == <<"-", " ", "Rate", ":", " ", "login">>

GroupedLines ==
    {FeatureLine, HeadingLine, LoginItemLine, StoryLine, RateLine, RateLoginLine}

GroupedDocuments == {parseContent(text) : text \in SeqsUpTo(GroupedLines, MaxGroupedLines)}

----------------------------------------------------------------------------
(* Inputs of the deduplication specification.                              *)

MaxScenarios == 2

DedupNames == {<<"a">>, <<"a", "-", "b">>}

DedupStepTexts ==
    {<<<<"c">>>>, <<<<"b", "-", "c">>>>, <<<<"b">>, <<"c">>>>, <<<<"b", "|", "c">>>>}

DedupScenarios ==
    {Scenario(name, Undefined, <<<<"@acceptance-criteria">>>>,
              [k \in 1..Len(texts) |-> Step(IF k = 1 THEN "Then" ELSE "And", texts[k], k)],
              "happy-path", "acceptance-criteria", 8) :
        name \in DedupNames, texts \in DedupStepTexts}

----------------------------------------------------------------------------
(* Specifications.                                                         *)

\* nothing called yet on a freshly constructed analyzer
Fresh ==
    /\ call = "none"
    /\ content = <<>>
    /\ givenOptions = NoOptions
    /\ givenFeature = NoFeature
    /\ prd = NoPRD
    /\ requirementGroups = <<>>
    /\ features = <<>>
    /\ generated = <<>>
    /\ validation = NoValidation
    /\ outcome = "pending"
    /\ defaultOptions = DefaultOptions
    /\ earlier = <<>>
    /\ arguments = <<>>
    /\ returned = <<>>

\* parseContent, called directly or as the first stage of analyzeContent
ParseContent ==
    /\ pc = "parseContent"
    /\ prd' = parseContent(content)
    /\ IF call = "analyzeContent"
       THEN pc' = "groupRequirements" /\ outcome' = outcome
       ELSE pc' = "done" /\ outcome' = "returned"
    /\ UNCHANGED <<call, content, givenOptions, givenFeature, requirementGroups, features,
                   generated, validation, defaultOptions, earlier>>
    /\ UNCHANGED <<arguments, returned>>

\* extractFeatures up to line 40: the requirements are grouped
GroupRequirements ==
    /\ pc = "groupRequirements"
    /\ requirementGroups' = groupRequirements(prd.requirements)
    /\ pc' = "createFeatures"
    /\ UNCHANGED <<call, content, givenOptions, givenFeature, prd, features, generated,
                   validation, outcome, defaultOptions, earlier>>
    /\ UNCHANGED <<arguments, returned>>

\* no declaration of groupedFeatures is in scope at line 51 of extractFeatures
groupedFeaturesDeclared == FALSE

\* extractFeatures from line 43 on: a feature is created per group, then the
\* read of groupedFeatures raises and the features built so far are dropped;
\* analyzePRD and analyzeContent pass the rejection on
CreateFeaturesAndFail ==
    /\ pc = "createFeatures"
    /\ LET built == CreateFeatures(prd.requirements, requirementGroups)
       IN  /\ Len(built) = Len(requirementGroups)
           /\ ~groupedFeaturesDeclared
           /\ outcome' = "ReferenceError"
           /\ pc' = "done"
    /\ UNCHANGED <<call, content, givenOptions, givenFeature, prd, requirementGroups, features,
                   generated, validation, defaultOptions, earlier>>
    /\ UNCHANGED <<arguments, returned>>

\* generateScenarios called on the generator
GenerateScenarios ==
    /\ pc = "generateScenarios"
    /\ LET merged == MergeOptions(defaultOptions, givenOptions)
       IN  /\ generated' = generateScenarios(givenFeature, merged.opts)
           /\ defaultOptions' = merged.defaultOptions
    /\ outcome' = "returned"
    /\ pc' = "done"
    /\ UNCHANGED <<call, content, givenOptions, givenFeature, prd, requirementGroups, features,
                   validation, earlier>>
    /\ UNCHANGED <<arguments, returned>>

\* validateRequirements applied to the document and the features at hand
ValidateRequirements ==
    /\ pc = "validate"
    /\ validation' = validateRequirements(prd, features)
    /\ pc' = "validated"
    /\ UNCHANGED <<call, content, givenOptions, givenFeature, prd, requirementGroups, features,
                   generated, outcome, defaultOptions, earlier>>
    /\ UNCHANGED <<arguments, returned>>

Init ==
    /\ pc = "parseContent"
    /\ call = "analyzeContent"
    /\ content \in Texts
    /\ givenOptions \in OptionChoices
    /\ givenFeature = NoFeature
    /\ prd = NoPRD
    /\ requirementGroups = <<>>
    /\ features = <<>>
    /\ generated = <<>>
    /\ validation = NoValidation
    /\ outcome = "pending"
    /\ defaultOptions = DefaultOptions
    /\ earlier = <<>>
    /\ arguments = <<>>
    /\ returned = <<>>

Next == ParseContent \/ GroupRequirements \/ CreateFeaturesAndFail

\* analyzeContent(content, options) on a fresh analyzer
Spec == Init /\ [][Next]_vars

\* what the caller of the completed call holds
Result ==
    CASE call = "parseContent" -> [outcome |-> outcome, prd |-> prd, scenarios |-> <<>>]
      [] call = "generateScenarios" ->
            [outcome |-> outcome, prd |-> NoPRD, scenarios |-> generated]
      [] OTHER -> [outcome |-> outcome, prd |-> NoPRD, scenarios |-> <<>>]

\* the caller starts one of the three operations on the same analyzer
StartCall ==
    /\ pc = "idle"
    /\ \/ /\ call' = "analyzeContent"
          /\ content' \in RunTexts /\ givenOptions' \in OptionChoices
          /\ givenFeature' = NoFeature /\ pc' = "parseContent"
       \/ /\ call' = "parseContent"
          /\ content' \in RunTexts /\ givenOptions' = NoOptions
          /\ givenFeature' = NoFeature /\ pc' = "parseContent"
       \/ /\ call' = "generateScenarios"
          /\ content' = <<>> /\ givenOptions' \in OptionChoices
          /\ givenFeature' \in RunFeatures /\ pc' = "generateScenarios"
    /\ UNCHANGED <<prd, requirementGroups, features, generated, validation, outcome,
                   defaultOptions, earlier>>
    /\ UNCHANGED <<arguments, returned>>

\* the call is over: its arguments, locals and result are gone, the fields
\* of the analyzer stay
CallOver ==
    /\ pc' = "idle"
    /\ call' = "none"
    /\ content' = <<>>
    /\ givenOptions' = NoOptions
    /\ givenFeature' = NoFeature
    /\ prd' = NoPRD
    /\ requirementGroups' = <<>>
    /\ generated' = <<>>
    /\ outcome' = "pending"
    /\ UNCHANGED <<features, validation, defaultOptions>>
    /\ UNCHANGED <<arguments, returned>>

\* the observer keeps the first completed call
Remember ==
    /\ pc = "done"
    /\ earlier = <<>>
    /\ earlier' = <<[call |-> call, content |-> content, options |-> givenOptions,
                     feature |-> givenFeature, result |-> Result, others |-> FALSE]>>
    /\ CallOver

\* the observer notes whether a generateScenarios call with other options than
\* the remembered call's has come in between
Return ==
    /\ pc = "done"
    /\ earlier # <<>>
    /\ earlier' = <<[earlier[1] EXCEPT !.others =
                        @ \/ (call = "generateScenarios"
                              /\ givenOptions # earlier[1].options)]>>
    /\ CallOver

InitRuns == pc = "idle" /\ Fresh

NextRuns ==
    \/ StartCall
    \/ ParseContent
    \/ GroupRequirements
    \/ CreateFeaturesAndFail
    \/ GenerateScenarios
    \/ Remember
    \/ Return

\* any sequence of analyzeContent, parseContent and generateScenarios calls
SpecRuns == InitRuns /\ [][NextRuns]_vars

InitGenerate ==
    /\ pc = "generateScenarios"
    /\ call = "generateScenarios"
    /\ givenFeature \in GeneratorFeatures
    /\ givenOptions \in GeneratorOptions
    /\ content = <<>>
    /\ prd = NoPRD
    /\ requirementGroups = <<>>
    /\ features = <<>>
    /\ generated = <<>>
    /\ validation = NoValidation
    /\ outcome = "pending"
    /\ defaultOptions = DefaultOptions
    /\ earlier = <<>>
    /\ arguments = <<>>
    /\ returned = <<>>

NextGenerate == GenerateScenarios

\* generateScenarios as a function of arbitrary features and options
SpecGenerate == InitGenerate /\ [][NextGenerate]_vars

\* no call of the pipeline is in progress and none has been
PipelineIdle ==
    /\ content = <<>>
    /\ givenOptions = NoOptions
    /\ givenFeature = NoFeature
    /\ prd = NoPRD
    /\ requirementGroups = <<>>
    /\ features = <<>>
    /\ generated = <<>>
    /\ validation = NoValidation
    /\ outcome = "pending"
    /\ defaultOptions = DefaultOptions
    /\ earlier = <<>>

\* calculateSimilarity applied to two keyword lists, in both orders
CalculateSimilarity ==
    /\ pc = "calculateSimilarity"
    /\ returned' = <<calculateSimilarity(arguments[1], arguments[2]),
                     calculateSimilarity(arguments[2], arguments[1])>>
    /\ pc' = "done"
    /\ UNCHANGED <<call, content, givenOptions, givenFeature, prd, requirementGroups,
                   features, generated, validation, outcome, defaultOptions, earlier,
                   arguments>>

InitSimilarity ==
    /\ pc = "calculateSimilarity"
    /\ call = "calculateSimilarity"
    /\ arguments \in KeywordSets \X KeywordSets
    /\ returned = <<>>
    /\ PipelineIdle

\* calculateSimilarity as a function of arbitrary keyword sets
SpecSimilarity == InitSimilarity /\ [][CalculateSimilarity]_vars

\* analyzePRD, lines 80 to 90: the scenarios of every feature are collected
\* in the map scenarios, held in generated
CollectFeatureScenarios ==
    /\ pc = "collectScenarios"
    /\ generated' = CollectScenarios(features,
                        MergeOptions(defaultOptions, givenOptions).opts, <<>>)
    /\ pc' = "report"
    /\ UNCHANGED <<call, content, givenOptions, givenFeature, prd, requirementGroups,
                   features, validation, outcome, defaultOptions, earlier, arguments,
                   returned>>

\* variant: the features are put in reverse order in place while the report
\* is made
MakeReportReorderingFeatures ==
    /\ pc = "report"
    /\ returned' = <<Report(prd, features, generated)>>
    /\ validation' = validateRequirements(prd, features)
    /\ features' = [i \in 1..Len(features) |-> features[Len(features) + 1 - i]]
    /\ outcome' = "returned"
    /\ pc' = "done"
    /\ UNCHANGED <<call, content, givenOptions, givenFeature, prd, requirementGroups,
                   generated, defaultOptions, earlier, arguments>>

\* analyzePRD from line 92 on: summary, recommendations and validation are
\* made of the document, the features and the scenarios
MakeReport ==
    /\ pc = "report"
    /\ returned' = <<Report(prd, features, generated)>>
    /\ validation' = validateRequirements(prd, features)
    /\ outcome' = "returned"
    /\ pc' = "done"
    /\ UNCHANGED <<call, content, givenOptions, givenFeature, prd, requirementGroups,
                   features, generated, defaultOptions, earlier, arguments>>

\* extractFeatures on a document, or analyzePRD behind the extraction on the
\* features the group loop of extractFeatures builds for the document
InitReport ==
    /\ prd \in ReportDocuments
    /\ givenOptions \in ReportOptions
    /\ call \in {"extractFeatures", "analyzePRD"}
    /\ pc = (IF call = "extractFeatures" THEN "groupRequirements" ELSE "collectScenarios")
    /\ features = (IF call = "extractFeatures" THEN <<>> ELSE GroupFeatures(prd))
    /\ content = <<>>
    /\ givenFeature = NoFeature
    /\ requirementGroups = <<>>
    /\ generated = <<>>
    /\ validation = NoValidation
    /\ outcome = "pending"
    /\ defaultOptions = DefaultOptions
    /\ earlier = <<>>
    /\ arguments = <<>>
    /\ returned = <<>>

NextReport ==
    \/ GroupRequirements
    \/ CreateFeaturesAndFail
    \/ CollectFeatureScenarios
    \/ MakeReport

\* the stages behind the parser, each applied to what the stage before it
\* has built
SpecReport == InitReport /\ [][NextReport]_vars

InitGrouping ==
    /\ pc = "groupRequirements"
    /\ call = "groupRequirements"
    /\ prd \in GroupedDocuments
    /\ features = <<>>
    /\ givenOptions = NoOptions
    /\ content = <<>>
    /\ givenFeature = NoFeature
    /\ requirementGroups = <<>>
    /\ generated = <<>>
    /\ validation = NoValidation
    /\ outcome = "pending"
    /\ defaultOptions = DefaultOptions
    /\ earlier = <<>>
    /\ arguments = <<>>
    /\ returned = <<>>

\* groupRequirements as a function of the requirements of parsed documents
SpecGrouping == InitGrouping /\ [][GroupRequirements]_vars

\* deduplicateScenarios applied to a list of scenarios
DeduplicateScenarios ==
    /\ pc = "deduplicateScenarios"
    /\ returned' = deduplicateScenarios(arguments)
    /\ pc' = "done"
    /\ UNCHANGED <<call, content, givenOptions, givenFeature, prd, requirementGroups,
                   features, generated, validation, outcome, defaultOptions, earlier,
                   arguments>>

InitDeduplicate ==
    /\ pc = "deduplicateScenarios"
    /\ call = "deduplicateScenarios"
    /\ arguments \in SeqsUpTo(DedupScenarios, MaxScenarios)
    /\ returned = <<>>
    /\ PipelineIdle

\* deduplicateScenarios as a function of arbitrary scenario lists
SpecDeduplicate == InitDeduplicate /\ [][DeduplicateScenarios]_vars

InitValidate ==
    /\ pc = "validate"
    /\ call = "validateRequirements"
    /\ prd \in {PRD(UntitledPRD, rs) :
                   rs \in SeqsUpTo(ValidatedRequirements, MaxValidatedRequirements)}
    /\ features \in SeqsUpTo(ValidatedFeatures, MaxValidatedFeatures)
    /\ content = <<>>
    /\ givenOptions = NoOptions
    /\ givenFeature = NoFeature
    /\ requirementGroups = <<>>
    /\ generated = <<>>
    /\ validation = NoValidation
    /\ outcome = "pending"
    /\ defaultOptions = DefaultOptions
    /\ earlier = <<>>
    /\ arguments = <<>>
    /\ returned = <<>>

NextValidate == ValidateRequirements

\* validateRequirements as a function of arbitrary documents and features
SpecValidate == InitValidate /\ [][NextValidate]_vars

InitCycle ==
    /\ pc = "validate"
    /\ call = "validateRequirements"
    /\ prd = PRD(UntitledPRD, <<PlainRequirement>>)
    /\ features \in SeqsUpTo(GraphFeatures, MaxGraphFeatures)
    /\ content = <<>>
    /\ givenOptions = NoOptions
    /\ givenFeature = NoFeature
    /\ requirementGroups = <<>>
    /\ generated = <<>>
    /\ validation = NoValidation
    /\ outcome = "pending"
    /\ defaultOptions = DefaultOptions
    /\ earlier = <<>>
    /\ arguments = <<>>
    /\ returned = <<>>

\* validateRequirements as a function of arbitrary dependency graphs
SpecCycle == InitCycle /\ [][NextValidate]_vars

----------------------------------------------------------------------------
(* Properties of parsing: requirement ids.                                 *)

\* REQ-<i zero-padded to 3 digits>, written out digit by digit
ExpectedId(i) ==
    LET digit == [d \in 0..9 |->
                    CASE d = 0 -> "0" [] d = 1 -> "1" [] d = 2 -> "2" [] d = 3 -> "3"
                      [] d = 4 -> "4" [] d = 5 -> "5" [] d = 6 -> "6" [] d = 7 -> "7"
                      [] d = 8 -> "8" [] d = 9 -> "9"]
    IN  <<"REQ-", digit[(i \div 100) % 10], digit[(i \div 10) % 10], digit[i % 10]>>

Parsed == pc # "parseContent"

\* C1: for every input text the requirement at position i of the document
\* returned by parseContent has the id REQ-<i zero-padded to 3 digits>, and no
\* two requirements of the document share an id
C1_IdsSequentialAndDistinct ==
    Parsed =>
        /\ \A i \in 1..Len(prd.requirements) : prd.requirements[i].id = ExpectedId(i)
        /\ \A i, j \in 1..Len(prd.requirements) :
               i # j => prd.requirements[i].id # prd.requirements[j].id

\* a document of three requirements of three kinds has been parsed
C1_Witness ==
    /\ Parsed
    /\ Len(prd.requirements) >= 3
    /\ {"user-story", "feature", "requirement"}
           \subseteq {prd.requirements[i].type : i \in 1..Len(prd.requirements)}
    /\ prd.requirements[3].id = <<"REQ-", "0", "0", "3">>

----------------------------------------------------------------------------
(* Properties of the analysis pipeline.                                    *)

\* C2: extractFeatures completes without raising on every parsed document,
\* the empty one included, so that analyzeContent returns a report for every
\* input text
C2_AnalyzeContentReturnsReport ==
    (call = "analyzeContent" /\ pc = "done") => outcome = "returned"

Grouped == pc \in {"createFeatures", "done"} /\ call = "analyzeContent"

\* the places (group, position in the group) that hold requirement i
PlacesOf(i) ==
    {<<k, j>> \in (1..Len(requirementGroups)) \X (1..Len(prd.requirements) + 1) :
        /\ j <= Len(requirementGroups[k].value)
        /\ requirementGroups[k].value[j] = i}

\* C3: after grouping every requirement of the parsed document is in exactly
\* one group: none is lost and none appears in two groups
C3_EveryRequirementInExactlyOneGroup ==
    Grouped => \A i \in 1..Len(prd.requirements) : Cardinality(PlacesOf(i)) = 1

HasScenario(list, type, words) ==
    \E k \in 1..Len(list) :
        /\ list[k].type = type
        /\ \E q \in 1..Len(list[k].name) :
               SliceTo(SliceFrom(list[k].name, q), Len(words)) = words

\* C4: analysing the two-line example text with default options returns one
\* user-story requirement and one requirement of priority high, grouped into
\* one or two features, each with a happy-path scenario, a network-failure
\* scenario and an invalid-input scenario
C4_ExampleReport ==
    (call = "analyzeContent" /\ content = ExampleText /\ givenOptions = NoOptions
     /\ pc = "done") =>
        /\ outcome = "returned"
        /\ Len(prd.requirements) = 2
        /\ \E i \in 1..2 : prd.requirements[i].type = "user-story"
        /\ \E i \in 1..2 : /\ prd.requirements[i].type = "requirement"
                           /\ prd.requirements[i].priority = "high"
        /\ Len(features) \in 1..2
        /\ \A k \in 1..Len(features) :
               LET list == generateScenarios(features[k],
                               MergeOptions(defaultOptions, givenOptions).opts)
               IN  /\ \E n \in 1..Len(list) : list[n].type = "happy-path"
                   /\ HasScenario(list, "error-case", <<"network", " ", "failure">>)
                   /\ HasScenario(list, "error-case", <<"invalid", " ", "input">>)

----------------------------------------------------------------------------
(* Properties of repeated calls on one analyzer.                           *)

\* the call that has just completed has the operation and the arguments of
\* the remembered one
SameCall ==
    /\ pc = "done"
    /\ earlier # <<>>
    /\ earlier[1].call = call
    /\ earlier[1].content = content
    /\ earlier[1].options = givenOptions
    /\ earlier[1].feature = givenFeature

----------------------------------------------------------------------------
(* Properties of validation: scoring.                                      *)

\* the penalty the specification attaches to each class of defect
DocumentedPenalty(kind) ==
    CASE kind = "duplicate-ids"     -> 20
      [] kind = "empty"             -> 15
      [] kind = "orphaned-criteria" -> 5
      [] kind = "large-feature"     -> 10
      [] kind = "no-actor"          -> 5
      [] kind = "circular"          -> 10

RECURSIVE SumPenalties(_)
SumPenalties(kinds) ==
    IF kinds = {} THEN 0
    ELSE LET k == CHOOSE x \in kinds : TRUE
         IN  DocumentedPenalty(k) + SumPenalties(kinds \ {k})

Messages(v) == Range(v.errors) \cup Range(v.warnings)

FiredChecks(v) == {m.kind : m \in Messages(v)}

HasDuplicateIds(p) ==
    \E i, j \in 1..Len(p.requirements) :
        i # j /\ p.requirements[i].id = p.requirements[j].id

HasEmptyRequirement(p) ==
    \E i \in 1..Len(p.requirements) :
        LET r == p.requirements[i]
        IN  \/ r.title \in {<<>>, Undefined}
            \/ r.description \in {<<>>, Undefined}
            \/ Range(r.title) \subseteq {" "}

HasOrphanedCriteria(p) ==
    \E i \in 1..Len(p.requirements) :
        /\ p.requirements[i].type = "acceptance-criteria"
        /\ p.requirements[i].title \in {<<>>, Undefined}

HasLargeFeature(fs) == \E i \in 1..Len(fs) : Len(fs[i].requirements) >= 11

HasFeatureWithoutActor(fs) ==
    \E i \in 1..Len(fs) :
        ~ \E k \in 1..Len(fs[i].userFlows) :
            fs[i].userFlows[k].actor \notin {<<>>, Undefined}

\* C6: the score is max(0, 100 - sum of the fixed penalties of the checks
\* that fired), every check is charged (and reported) at most once however
\* many defects of its class exist, and the score is an integer in [0,100].
C6_ScoreIsHundredMinusPenalties ==
    pc = "validated" =>
        /\ validation.score = Max(0, 100 - SumPenalties(FiredChecks(validation)))
        /\ validation.score \in 0..100
        /\ Len(validation.errors) + Len(validation.warnings)
               = Cardinality(FiredChecks(validation))
        /\ ("duplicate-ids" \in FiredChecks(validation)) <=> HasDuplicateIds(prd)
        /\ ("empty" \in FiredChecks(validation)) <=> HasEmptyRequirement(prd)
        /\ ("orphaned-criteria" \in FiredChecks(validation)) <=> HasOrphanedCriteria(prd)
        /\ ("large-feature" \in FiredChecks(validation)) <=> HasLargeFeature(features)
        /\ ("no-actor" \in FiredChecks(validation)) <=> HasFeatureWithoutActor(features)

\* two empty requirements and an actorless feature: 100 - 15 - 5
C6_Witness ==
    /\ pc = "validated"
    /\ \E m \in Range(validation.errors) : m.kind = "empty" /\ m.count = 2
    /\ FiredChecks(validation) = {"empty", "no-actor"}
    /\ validation.score = 80

AllChecksFired(v) ==
    FiredChecks(v) = {"duplicate-ids", "empty", "orphaned-criteria",
                      "large-feature", "no-actor", "circular"}

\* C7 as stated: an input that triggers every penalty at once scores 0.
C7_AllPenaltiesScoreZero ==
    (pc = "validated" /\ AllChecksFired(validation)) => validation.score = 0

\* C7 amended: an input that triggers every penalty at once scores
\* 100 - (20 + 15 + 5 + 10 + 5 + 10) = 35, which is not negative.
C7_AllPenaltiesScoreThirtyFive ==
    (pc = "validated" /\ AllChecksFired(validation)) => validation.score = 35

C7_Witness ==
    /\ pc = "validated"
    /\ AllChecksFired(validation)
    /\ HasDuplicateIds(prd) /\ HasOrphanedCriteria(prd) /\ HasLargeFeature(features)

\* C8: isValid holds exactly when neither error-class check fired (no
\* duplicate ids, no empty title/description), i.e. when errors is empty;
\* the warning-class checks never change it.
C8_ValidIffNoErrorCheckFired ==
    pc = "validated" =>
        /\ validation.isValid <=> (~HasDuplicateIds(prd) /\ ~HasEmptyRequirement(prd))
        /\ validation.isValid <=> (validation.errors = <<>>)

\* a valid result whose score was lowered by warnings only
C8_Witness ==
    /\ pc = "validated"
    /\ validation.isValid
    /\ validation.warnings # <<>>
    /\ validation.score < 100

----------------------------------------------------------------------------
(* Properties of validation: circular dependencies.                        *)

\* the dependency edges id -> dependency id of a feature list
Edges(fs) ==
    UNION {{<<fs[i].id, d>> : d \in Range(fs[i].dependencies)} : i \in 1..Len(fs)}

\* ids reachable from the set S in one or more steps
RECURSIVE ReachableFrom(_, _)
ReachableFrom(S, E) ==
    LET next == S \cup {e[2] : e \in {x \in E : x[1] \in S}}
    IN  IF next = S THEN S ELSE ReachableFrom(next, E)

HasCycle(fs) ==
    \E e \in Edges(fs) : e[1] \in ReachableFrom({e[2]}, Edges(fs))

\* the list describes one graph: an id has one dependency list
GraphWellDefined(fs) ==
    \A i, j \in 1..Len(fs) :
        fs[i].id = fs[j].id => fs[i].dependencies = fs[j].dependencies

IsThreeCycle(fs) ==
    /\ Len(fs) = 3
    /\ {<<fs[i].id, fs[i].dependencies>> : i \in 1..3}
         = {<<<<"FEAT-A">>, <<<<"FEAT-B">>>>>>,
            <<<<"FEAT-B">>, <<<<"FEAT-C">>>>>>,
            <<<<"FEAT-C">>, <<<<"FEAT-A">>>>>>}

C10_ReportedSequenceIsCycle ==
    (pc = "validated" /\ validation.circular # <<>>) =>
        LET c == validation.circular
        IN  /\ \A k \in 1..(Len(c) - 1) : <<c[k], c[k + 1]>> \in Edges(features)
            /\ c[Len(c)] = c[1]

----------------------------------------------------------------------------
(* Properties of scenario generation.                                      *)

Generated == pc = "done" /\ call = "generateScenarios"

\* the options the call runs with
EffectiveOptions ==
    [k \in DOMAIN DefaultOptions |->
        IF k \in givenOptions.given THEN givenOptions.values[k] ELSE DefaultOptions[k]]

\* the acceptance criteria of a requirement, none when the field is absent
CriteriaOf(req) ==
    IF req.acceptanceCriteria = UndefinedList THEN <<>> ELSE req.acceptanceCriteria

RECURSIVE SumOver(_, _)
SumOver(f, S) ==
    IF S = {} THEN 0 ELSE LET x == CHOOSE y \in S : TRUE IN f[x] + SumOver(f, S \ {x})

\* N: the acceptance criteria of the feature in total
GivenCriteriaTotal ==
    SumOver([i \in 1..Len(givenFeature.requirements) |->
                Len(CriteriaOf(givenFeature.requirements[i]))],
            1..Len(givenFeature.requirements))

CeilingOfFifth(n) == (n + 4) \div 5

CriteriaDerived == {k \in 1..Len(generated) : generated[k].source = "acceptance-criteria"}

\* the slices of at most five criteria, cut requirement by requirement, each
\* with the title it is named after
TitledChunks ==
    {<<givenFeature.requirements[i].title,
       SubSeq(CriteriaOf(givenFeature.requirements[i]), 5 * (j - 1) + 1,
              Min(5 * j, Len(CriteriaOf(givenFeature.requirements[i]))))>> :
        <<i, j>> \in {<<i, j>> \in (1..Len(givenFeature.requirements))
                                     \X (1..CeilingOfFifth(GivenCriteriaTotal)) :
                      j <= CeilingOfFifth(Len(CriteriaOf(givenFeature.requirements[i])))}}

StepTexts(scenario) == [k \in 1..Len(scenario.steps) |-> scenario.steps[k].text]

\* C12: for any feature and options, the list returned by generateScenarios
\* holds no two entries with the same name and the same sequence of step texts
C12_NoTwoScenariosAlike ==
    Generated =>
        \A i, j \in 1..Len(generated) :
            (/\ generated[i].name = generated[j].name
             /\ StepTexts(generated[i]) = StepTexts(generated[j])) => i = j

\* the same flow twice in the feature: one happy-path scenario is returned
C12_Witness ==
    /\ Generated
    /\ Len(givenFeature.userFlows) = 2
    /\ givenFeature.userFlows[1] = givenFeature.userFlows[2]
    /\ EffectiveOptions.maxScenariosPerFlow > 0
    /\ Cardinality({k \in 1..Len(generated) : generated[k].source = "user-story"}) = 1

\* the precedence of the kinds of scenario
KindPrecedence(type) ==
    CASE type = "happy-path" -> 1 [] type = "integration" -> 2
      [] type = "edge-case" -> 3 [] type = "error-case" -> 4

\* a is not behind b in the alphabet: at the first token where the names
\* differ otherwise than by case a has the earlier one, or a is a prefix of b
AlphabeticalUpTo(a, b) ==
    LET differ == {k \in 1..Min(Len(a), Len(b)) : Lower(a[k]) # Lower(b[k])}
    IN  IF differ = {} THEN Len(a) <= Len(b)
        ELSE TokenRank(a[Least(differ)]) < TokenRank(b[Least(differ)])

\* C13: in the list returned by generateScenarios, of any two adjacent
\* scenarios the first has the lower or the same kind precedence (happy-path,
\* integration, edge-case, error-case); with the same kind it has the higher or
\* the same confidence; with the same kind and confidence its name is not
\* behind the other's in the alphabet
C13_ResultIsSorted ==
    Generated =>
        \A k \in 1..(Len(generated) - 1) :
            LET a == generated[k]
                b == generated[k + 1]
            IN  /\ KindPrecedence(a.type) <= KindPrecedence(b.type)
                /\ a.type = b.type => a.confidence >= b.confidence
                /\ (a.type = b.type /\ a.confidence = b.confidence) =>
                       AlphabeticalUpTo(a.name, b.name)

\* the requirement titled Lock precedes the one titled Audit in the feature,
\* their scenarios come out in the order Audit, Lock behind a flow's scenario
\* of higher confidence
C13_Witness ==
    /\ Generated
    /\ Len(givenFeature.requirements) = 2
    /\ givenFeature.requirements[1].title = <<"Lock">>
    /\ givenFeature.requirements[2].title = <<"Audit">>
    /\ \E k \in 1..(Len(generated) - 1) :
           /\ generated[k].confidence = 9 /\ generated[k].type = "happy-path"
           /\ generated[k + 1].name = <<"Audit">> /\ generated[k + 1].confidence = 8
    /\ \E k \in 1..(Len(generated) - 1) :
           /\ generated[k].name = <<"Audit">> /\ generated[k].confidence = 8
           /\ generated[k + 1].name = <<"Lock">> /\ generated[k + 1].confidence = 8
    /\ \E k \in 1..Len(generated) : generated[k].type = "error-case"

----------------------------------------------------------------------------
(* Properties of keyword similarity.                                       *)

\* x === y for two results of a division: NaN (den = 0) equals nothing, not
\* even itself
StrictEquals(x, y) == x.den # 0 /\ y.den # 0 /\ x.num * y.den = y.num * x.den

\* C14: calculateSimilarity(A, B) equals calculateSimilarity(B, A) for any
\* two keyword sets A and B, also when one or both of them are empty
C14_SimilarityIsSymmetric ==
    (pc = "done" /\ call = "calculateSimilarity") => StrictEquals(returned[1], returned[2])

----------------------------------------------------------------------------
(* Properties of parsing, continued.                                       *)

\* the lines of the texts that hold a user story, a feature heading or a
\* "- title: description" item
RecognizableLines == {StoryLine, StoryValueLine, RateLine, FeatureLine, HeadingLine}

RecognizedIn(text) == {i \in DOMAIN text : text[i] \in RecognizableLines}

\* C15: parseContent never raises, whatever the text: a line that matches no
\* pattern contributes no requirement, and a text without any recognizable
\* pattern yields an empty requirement list and totalRequirements 0
C15_ParseNeverRaises ==
    Parsed =>
        /\ pc = "groupRequirements" => outcome = "pending"
        /\ Len(prd.requirements) = Cardinality(RecognizedIn(content))
        /\ prd.metadata.totalRequirements = Len(prd.requirements)
        /\ RecognizedIn(content) = {} =>
              prd.requirements = <<>> /\ prd.metadata.totalRequirements = 0

\* a text of several unrecognized lines, not all blank, has been parsed
C15_Witness ==
    /\ pc = "groupRequirements"
    /\ Len(content) >= 2
    /\ RecognizedIn(content) = {}
    /\ \E i \in DOMAIN content : content[i] = PlainLine
    /\ \E i \in DOMAIN content : content[i] \in {CriterionLine, NumberedLine, TitleLine}
    /\ prd.metadata.totalRequirements = 0

----------------------------------------------------------------------------
(* Properties of the options.                                              *)

\* the values the type ScenarioGenerationOptions admits
DetailLevels == {"basic", "standard", "detailed"}

InvalidOptions(options) ==
    "detailLevel" \in options.given /\ options.values.detailLevel \notin DetailLevels

\* a stage of the call in progress has run
StageHasRun ==
    \/ call = "analyzeContent" /\ pc \in {"groupRequirements", "createFeatures", "done"}
    \/ call = "generateScenarios" /\ pc = "done"

\* C16: analyzeContent or generateScenarios called with invalid options (a
\* detailLevel outside basic, standard, detailed) fails with an error before
\* any stage runs: no stage produces output
C16_InvalidOptionsFailFast ==
    (InvalidOptions(givenOptions) /\ StageHasRun) =>
        /\ outcome \notin {"pending", "returned"}
        /\ prd = NoPRD
        /\ requirementGroups = <<>>
        /\ generated = <<>>

----------------------------------------------------------------------------
(* Properties of the generated error and edge cases.                       *)

\* the scenarios of the result that carry the tag
Tagged(tag) == {k \in 1..Len(generated) : \E t \in 1..Len(generated[k].tags) :
                                              generated[k].tags[t] = <<tag>>}

OfKind(type) == {k \in 1..Len(generated) : generated[k].type = type}

\* the feature names of the inputs that contain 'auth' or 'login' in any case
AccessNames == {<<"Login">>}

\* C17: with includeErrorCases enabled the result of every feature holds a
\* network-failure and an invalid-input scenario, and an unauthorized-access
\* scenario exactly when the feature name contains 'auth' or 'login' in any
\* case; with includeErrorCases disabled it holds no error-case scenario
C17_ErrorCasesAsEnabled ==
    Generated =>
        IF EffectiveOptions.includeErrorCases
        THEN /\ Cardinality(Tagged("@network")) = 1
             /\ Cardinality(Tagged("@validation")) = 1
             /\ Cardinality(Tagged("@security")) =
                    (IF givenFeature.name \in AccessNames THEN 1 ELSE 0)
             /\ OfKind("error-case") =
                    Tagged("@network") \cup Tagged("@validation") \cup Tagged("@security")
        ELSE OfKind("error-case") = {}

\* both branches in one picture: error cases enabled on a feature named Login
C17_Witness ==
    /\ Generated
    /\ EffectiveOptions.includeErrorCases
    /\ givenFeature.name = <<"Login">>
    /\ Cardinality(OfKind("error-case")) = 3

\* error cases disabled on a feature that has scenarios all the same
C17_WitnessDisabled ==
    /\ Generated
    /\ ~EffectiveOptions.includeErrorCases
    /\ givenFeature.name = <<"Login">>
    /\ generated # <<>>

\* the feature names of the inputs that contain 'search' or 'filter'
SearchNames == {<<"Search">>}

\* what includeEdgeCases decides: one concurrent-access scenario, and a
\* boundary-value scenario for the names with 'search' or 'filter'
EdgeCasesFollowFlag ==
    IF EffectiveOptions.includeEdgeCases
    THEN /\ Cardinality(Tagged("@concurrent")) = 1
         /\ Cardinality(Tagged("@boundary")) =
                (IF givenFeature.name \in SearchNames THEN 1 ELSE 0)
    ELSE Tagged("@concurrent") = {} /\ Tagged("@boundary") = {}

\* C18 as stated: edge-case scenarios are produced only if includeEdgeCases
\* is enabled: enabled, one concurrent-access scenario plus a boundary-value
\* scenario exactly for names with 'search' or 'filter'; disabled, no scenario
\* of kind edge-case at any detail level
C18_NoEdgeCaseUnlessEnabled ==
    Generated =>
        /\ EdgeCasesFollowFlag
        /\ ~EffectiveOptions.includeEdgeCases => OfKind("edge-case") = {}

\* C18 amended: includeEdgeCases decides the concurrent-access and the
\* boundary-value scenario; the other scenarios of kind edge-case are the
\* partial-completion scenarios of the flows, present at detailed level only
\* and whatever includeEdgeCases says
C18_EdgeCasesAsEnabled ==
    Generated =>
        /\ EdgeCasesFollowFlag
        /\ OfKind("edge-case") =
               Tagged("@concurrent") \cup Tagged("@boundary") \cup Tagged("@partial")
        /\ EffectiveOptions.detailLevel # "detailed" => Tagged("@partial") = {}

\* edge cases disabled, and the result holds an edge-case scenario
C18_Witness ==
    /\ Generated
    /\ ~EffectiveOptions.includeEdgeCases
    /\ givenFeature.name \in SearchNames
    /\ OfKind("edge-case") # {}
    /\ OfKind("edge-case") = Tagged("@partial")

----------------------------------------------------------------------------
(* Properties of the scenarios of the user flows.                          *)

\* the happy-path scenarios of the result that are derived from the flow
HappyOf(flow) ==
    {k \in OfKind("happy-path") \cap Tagged("@happy-path") :
        generated[k].name = generateScenarioName(flow.name, "success")}

\* the partial-completion scenarios of the result that are derived from the flow
PartialOf(flow) ==
    {k \in OfKind("edge-case") \cap Tagged("@partial") :
        generated[k].name = generateScenarioName(flow.name, "partial")}

\* the list of a flow: the happy path, then at detailed level the partial
\* completion of a flow of more than 2 steps
ListLength(flow) ==
    IF EffectiveOptions.detailLevel = "detailed" /\ Len(flow.steps) > 2 THEN 2 ELSE 1

\* how many are the first n of a list of the given length
FirstOf(n, length) == IF n < 0 THEN 0 ELSE Min(n, length)

\* how many of the list are kept under the limit n: the first n, and for a
\* negative n all but the last -n
KeptOf(n, length) == IF n < 0 THEN Max(length + n, 0) ELSE Min(n, length)

GivenFlows == {givenFeature.userFlows[i] : i \in 1..Len(givenFeature.userFlows)}

\* C19 as stated: for every user flow the result holds one happy-path
\* scenario tagged @happy-path; at detailed level a flow of more than 2 steps
\* adds one partial-completion edge-case scenario; the scenarios of one flow
\* are the first maxScenariosPerFlow of that list, for every value of it
C19_OneHappyPathPerFlow ==
    Generated =>
        \A flow \in GivenFlows :
            /\ Cardinality(HappyOf(flow)) = 1
            /\ Cardinality(HappyOf(flow)) + Cardinality(PartialOf(flow)) =
                   FirstOf(EffectiveOptions.maxScenariosPerFlow, ListLength(flow))

\* C19 amended: the scenarios of one flow are the first maxScenariosPerFlow
\* of its list (happy path first) for a limit of 0 or more, and the list
\* without its last n for a limit of -n; so the happy path is there for a
\* limit of 1 or more, and the partial completion for a limit of 2 or more
C19_FlowScenariosUpToLimit ==
    Generated =>
        \A flow \in GivenFlows :
            LET kept == KeptOf(EffectiveOptions.maxScenariosPerFlow, ListLength(flow))
            IN  /\ Cardinality(HappyOf(flow)) = (IF kept >= 1 THEN 1 ELSE 0)
                /\ Cardinality(PartialOf(flow)) = (IF kept >= 2 THEN 1 ELSE 0)
                /\ \A h \in HappyOf(flow), p \in PartialOf(flow) : h < p
                /\ EffectiveOptions.maxScenariosPerFlow >= 1 => HappyOf(flow) # {}

\* a feature with flows under the limit 0: no happy path in the result
C19_Witness ==
    /\ Generated
    /\ EffectiveOptions.maxScenariosPerFlow = 0
    /\ EffectiveOptions.detailLevel = "detailed"
    /\ Len(givenFeature.userFlows) = 2
    /\ OfKind("happy-path") = {}

\* a flow of 3 steps at detailed level under the limit 5: both scenarios
C19_WitnessBoth ==
    /\ Generated
    /\ EffectiveOptions.maxScenariosPerFlow = 5
    /\ \E flow \in GivenFlows : HappyOf(flow) # {} /\ PartialOf(flow) # {}

----------------------------------------------------------------------------
(* Properties of the order of the extracted features.                      *)

\* the features of the list that have the priority, in the order of the list
OfPriority(list, priority) == SelectSeq(list, LAMBDA f : f.priority = priority)

\* C20: extractFeatures returns the features in descending order of priority
\* (all high before all medium before all low), features of equal priority in
\* the order in which their groups were discovered
C20_FeaturesByDescendingPriority ==
    (call = "analyzeContent" /\ pc = "done") =>
        LET discovered == CreateFeatures(prd.requirements, requirementGroups)
        IN  /\ outcome = "returned"
            /\ Len(features) = Len(discovered)
            /\ \A i, j \in 1..Len(features) :
                   i < j => priorityOrder[features[i].priority]
                                >= priorityOrder[features[j].priority]
            /\ \A priority \in DOMAIN priorityOrder :
                   OfPriority(features, priority) = OfPriority(discovered, priority)

----------------------------------------------------------------------------
(* Properties of the report.                                               *)

Reported == pc = "done" /\ call = "analyzePRD"

\* the scenarios generated for the feature in this call
ScenariosFor(feature) ==
    generateScenarios(feature, MergeOptions(defaultOptions, givenOptions).opts)

\* C21: in every report the scenario mapping has exactly one entry per
\* feature of the report, holding the scenarios generated for that feature,
\* and summary.totalScenarios is the sum over the features of the number of
\* scenarios generated for each; the ids of the features are pairwise distinct
C21_OneEntryPerFeature ==
    Reported =>
        LET report == returned[1]
        IN  /\ Len(report.scenarios) = Len(report.features)
            /\ \A i \in 1..Len(report.features) :
                   /\ MapHas(report.scenarios, report.features[i].id)
                   /\ MapGet(report.scenarios, report.features[i].id)
                          = ScenariosFor(report.features[i])
            /\ report.summary.totalScenarios =
                   SumOver([i \in 1..Len(report.features) |->
                               Len(ScenariosFor(report.features[i]))],
                           1..Len(report.features))
            /\ \A i, j \in 1..Len(report.features) :
                   report.features[i].id = report.features[j].id => i = j

----------------------------------------------------------------------------
(* Properties of the grouping.                                             *)

GroupsMade == pc = "createFeatures" /\ call = "groupRequirements"

\* the similarity of the requirements at two positions of the document
SimilarityOf(i, j) ==
    calculateSimilarity(extractKeywords(prd.requirements[i]),
                        extractKeywords(prd.requirements[j]))

FeaturePositions ==
    {f \in 1..Len(prd.requirements) : prd.requirements[f].type = "feature"}

\* the groups that hold position i
GroupsHolding(i) ==
    {k \in 1..Len(requirementGroups) : i \in Range(requirementGroups[k].value)}

\* the groups that begin with a feature-kind requirement
ExplicitGroups ==
    {k \in 1..Len(requirementGroups) :
        /\ requirementGroups[k].value # <<>>
        /\ requirementGroups[k].value[1] \in FeaturePositions}

\* C23: in explicit grouping a requirement that is no feature and whose
\* similarity exceeds 0.30 for several feature-kind requirements is in the
\* group of the earliest of them in document order and in no other group; a
\* requirement whose similarity is at most 0.30 to every feature is in no
\* explicit group
C23_ClaimedByEarliestFeature ==
    GroupsMade =>
        \A i \in (1..Len(prd.requirements)) \ FeaturePositions :
            LET close == {f \in FeaturePositions : Exceeds(SimilarityOf(f, i), 3, 10)}
            IN  IF close = {}
                THEN GroupsHolding(i) \cap ExplicitGroups = {}
                ELSE /\ Cardinality(GroupsHolding(i)) = 1
                     /\ \A k \in GroupsHolding(i) :
                            requirementGroups[k].value[1] = Least(close)

\* the groups identifyThemes has made
ThemeGroups == (1..Len(requirementGroups)) \ ExplicitGroups

ThemeOf(i) == extractTheme(prd.requirements[i])

\* C24 as stated: every member of a theme group other than the requirement
\* that seeded it has a similarity above 0.40 with that seed, so two unclaimed
\* requirements that are not that similar to the seed are never in one theme
\* group
C24_MembersSimilarToSeed ==
    GroupsMade =>
        \A k \in ThemeGroups :
            \A m \in 2..Len(requirementGroups[k].value) :
                Exceeds(SimilarityOf(requirementGroups[k].value[1],
                                     requirementGroups[k].value[m]), 4, 10)

\* C24 amended: a theme group is kept per theme label, so it may have several
\* seeds; every member of a theme group either carries the label of the group
\* itself or has a similarity above 0.40 with a member before it that does
C24_MembersSeedOrSimilarToSeed ==
    GroupsMade =>
        \A k \in ThemeGroups :
            LET members == requirementGroups[k].value
            IN  /\ members # <<>> => ThemeOf(members[1]) = requirementGroups[k].key
                /\ \A m \in 1..Len(members) :
                       \/ ThemeOf(members[m]) = requirementGroups[k].key
                       \/ \E n \in 1..(m - 1) :
                              /\ ThemeOf(members[n]) = requirementGroups[k].key
                              /\ Exceeds(SimilarityOf(members[n], members[m]), 4, 10)

\* one theme group holds a requirement absorbed for its similarity and a
\* second seed that is not similar to the first
C24_Witness ==
    /\ GroupsMade
    /\ \E k \in ThemeGroups :
           LET members == requirementGroups[k].value
           IN  /\ Len(members) = 3
               /\ ThemeOf(members[2]) # requirementGroups[k].key
               /\ Exceeds(SimilarityOf(members[1], members[2]), 4, 10)
               /\ ThemeOf(members[3]) = requirementGroups[k].key
               /\ ~Exceeds(SimilarityOf(members[1], members[3]), 4, 10)

----------------------------------------------------------------------------
(* Properties of the recommendations.                                      *)

\* the scenarios of all features of the report
ReportedScenarios == FlatValues(returned[1].scenarios)

\* C25: the recommendation about missing edge cases is in the report if and
\* only if the scenarios of all features together hold no scenario of kind
\* edge-case, the partial-completion scenarios of the detailed level included
C25_EdgeCaseRecommendation ==
    Reported =>
        ("edge cases" \in Range(returned[1].recommendations)
            <=> \A k \in 1..Len(ReportedScenarios) :
                    ReportedScenarios[k].type # "edge-case")

----------------------------------------------------------------------------
(* Properties of the deduplication.                                        *)

\* two scenarios have the same name and the same sequence of step texts
Alike(a, b) == a.name = b.name /\ StepTexts(a) = StepTexts(b)

\* C26: deduplication drops a scenario only if an earlier scenario of the
\* list has the same name and the same sequence of step texts, and keeps the
\* first of them: scenarios that differ in name or in step texts are all
\* kept, whatever '-' or '|' their names and step texts contain
C26_DropsOnlyIdenticalScenarios ==
    (pc = "done" /\ call = "deduplicateScenarios") =>
        returned = Members(arguments,
                       SelectIdx(Len(arguments),
                                 {k \in 1..Len(arguments) :
                                     \A j \in 1..(k - 1) : ~Alike(arguments[j], arguments[k])},
                                 1))

----------------------------------------------------------------------------
(* Properties of the order of the requirement ids.                         *)

\* the requirements that line i of the text yields when parsed by itself
YieldOf(i) == parseContent(<<content[i]>>).requirements

\* requirement k of the document is the one met in line i of the text: the
\* line yields a requirement of its type and title, and no other line does
EncounteredIn(k, i) ==
    /\ \E y \in Range(YieldOf(i)) :
           y.type = prd.requirements[k].type /\ y.title = prd.requirements[k].title
    /\ \A j \in 1..Len(content) : \A y \in Range(YieldOf(j)) :
           (y.type = prd.requirements[k].type /\ y.title = prd.requirements[k].title)
               => j = i

\* requirement k is numbered before requirement l
NumberedBefore(k, l) ==
    /\ k < l
    /\ prd.requirements[k].id = ExpectedId(k)
    /\ prd.requirements[l].id = ExpectedId(l)

\* C27: the ids follow the order of the text: a requirement met in an
\* earlier line than another has the smaller number, whatever the kinds of
\* the two
C27_IdsFollowTextOrder ==
    Parsed =>
        \A k, l \in 1..Len(prd.requirements) : \A i, j \in 1..Len(content) :
            (i < j /\ EncounteredIn(k, i) /\ EncounteredIn(l, j)) => NumberedBefore(k, l)

\* C27 amended: of two requirements of one kind, the one met in the earlier
\* line has the smaller number
C27_IdsFollowTextOrderWithinKind ==
    Parsed =>
        \A k, l \in 1..Len(prd.requirements) : \A i, j \in 1..Len(content) :
            (/\ i < j
             /\ EncounteredIn(k, i)
             /\ EncounteredIn(l, j)
             /\ prd.requirements[k].type = prd.requirements[l].type)
                => NumberedBefore(k, l)

\* two user stories met in two lines, a list requirement between them
C27_Witness ==
    /\ Parsed
    /\ Len(content) = 3
    /\ Len(prd.requirements) = 3
    /\ EncounteredIn(1, 1) /\ EncounteredIn(2, 3) /\ EncounteredIn(3, 2)
    /\ prd.requirements[1].type = "user-story"
    /\ prd.requirements[2].type = "user-story"
    /\ prd.requirements[3].type = "requirement"

----------------------------------------------------------------------------
(* Properties of the traversal of the dependency graph.                    *)

\* the ids of the graph: the features' ids and the ids they depend on
GraphNodes(fs) ==
    {fs[i].id : i \in 1..Len(fs)}
        \cup UNION {Range(fs[i].dependencies) : i \in 1..Len(fs)}

\* the ids in the order in which the traversal expanded them
Expanded == detectCircularDependenciesRun(features).expanded

\* C28: the detection of circular dependencies ends on every feature list
\* and expands each id at most once, so at most as many ids as the graph
\* has, also with cycles, self-dependencies, dependencies on ids that are
\* no features, and several features of one id
C28_EachIdExpandedAtMostOnce ==
    pc = "validated" =>
        /\ \A k, l \in 1..Len(Expanded) : k # l => Expanded[k] # Expanded[l]
        /\ Range(Expanded) \subseteq GraphNodes(features)
        /\ Len(Expanded) <= Cardinality(GraphNodes(features))

\* a graph of two features of one id, one depending on itself, and a
\* feature depending on an id that is no feature nor was met before
C28_Witness ==
    /\ pc = "validated"
    /\ Len(features) = 3
    /\ features[1].id = features[2].id
    /\ features[2].dependencies = <<features[2].id>>
    /\ features[3].id # features[1].id
    /\ \E d \in Range(features[3].dependencies) :
           \A i \in 1..3 : features[i].id # d
    /\ validation.circular # <<>>
    /\ Len(Expanded) = 3

----------------------------------------------------------------------------
(* Properties of validation: the orphaned acceptance criteria.             *)

\* C29: a result with the warning of orphaned acceptance criteria also has
\* the error of an empty title or description, so it is not valid and its
\* score is at most 100 - 15 - 5 = 80; no valid result has the warning
C29_OrphanWarningImpliesEmptyError ==
    (pc = "validated"
        /\ \E w \in Range(validation.warnings) : w.kind = "orphaned-criteria") =>
        /\ \E e \in Range(validation.errors) : e.kind = "empty"
        /\ ~validation.isValid
        /\ validation.score <= 80

\* an acceptance criterion without title but with a description, in a
\* document with no other defect: the two checks fire and nothing else
C29_Witness ==
    /\ pc = "validated"
    /\ FiredChecks(validation) = {"empty", "orphaned-criteria"}
    /\ \E i \in 1..Len(prd.requirements) :
           /\ prd.requirements[i].type = "acceptance-criteria"
           /\ prd.requirements[i].title = <<>>
           /\ prd.requirements[i].description = <<"works">>
    /\ validation.score = 80
    /\ ~validation.isValid

----------------------------------------------------------------------------
(* Properties of the analysis of a parsed text.                            *)

\* C30: no requirement of a parsed document has dependencies or is of the
\* kind acceptance-criteria, and the ids are non-empty and distinct; hence
\* no feature built from it has dependencies, no integration scenario is
\* generated, and its validation fires none of the checks of duplicate ids,
\* orphaned criteria and circular dependencies, so the score is at least
\* 100 - 15 - 10 - 5 = 70
C30_ParsedTextHasNoDependencies ==
    Reported =>
        /\ \A i \in 1..Len(prd.requirements) :
               /\ prd.requirements[i].dependencies = UndefinedList
               /\ prd.requirements[i].type # "acceptance-criteria"
               /\ ~Falsy(prd.requirements[i].id)
               /\ \A j \in 1..Len(prd.requirements) :
                      i # j => prd.requirements[i].id # prd.requirements[j].id
        /\ \A i \in 1..Len(features) : features[i].dependencies = <<>>
        /\ \A s \in Range(ReportedScenarios) :
               s.type # "integration" /\ <<"@integration">> \notin Range(s.tags)
        /\ FiredChecks(validation)
               \cap {"duplicate-ids", "orphaned-criteria", "circular"} = {}
        /\ validation.score >= 70

\* the report of a text of two requirements, integration scenarios being
\* asked for, whose validation found a defect of another class
C30_Witness ==
    /\ Reported
    /\ Len(prd.requirements) = 2
    /\ Len(features) >= 1
    /\ MergeOptions(defaultOptions, givenOptions).opts.includeIntegrationScenarios
    /\ ReportedScenarios # <<>>
    /\ FiredChecks(validation) # {}
    /\ validation.score < 100

====
